---- MODULE Spec2Model ----
(***************************************************************************)
(* Model of the tatianusPDF multi-file conversion pipeline:                *)
(*   - MemStorage (jobs, files, id counters)     src/vite.config.ts        *)
(*   - POST /api/pdf/upload, POST /api/pdf/cancel   src/server/routes.ts   *)
(*   - processJob and its progress callback      src/server/routes.ts      *)
(*   - processFile (the Converter)               src/server/pdf-processor.ts *)
(*   - GET status, results, download and refused uploads (SpecApi)         *)
(*   - the single-document API (SpecSingle)   routes.ts 365-, storage.ts   *)
(*   - Store calls that reject (SpecFault), Converter tools that fail      *)
(*     (SpecConverter), the paths of the files on disk (SpecPaths)         *)
(*   - two Jobs side by side (SpecTwo), both Stores (SpecIds), and the     *)
(*     event loop's fairness (SpecLive)                                    *)
(*   - the client's upload-and-poll routine (SpecClient, SpecClientLive)   *)
(*     and its list of selected files (SpecFiles)                          *)
(*       src/client/src/hooks/use-pdf-conversion.ts                        *)
(*   - the single-document API with its progress and download routes       *)
(*     (SpecSingleApi)                                                     *)
(*                                                                         *)
(* Every handler is an async function.  A MemStorage method contains no    *)
(* await: its reads and writes happen when it is called, and the caller's  *)
(* `await` then suspends the caller on a promise that is already resolved. *)
(* One action of the model is one segment of a handler: from the point     *)
(* where it resumes up to and including the next call it awaits.           *)
(*                                                                         *)
(* Scheduling is the event loop's.  The continuation of an await on a      *)
(* resolved promise is a microtask, and the microtask queue is drained     *)
(* before the next macrotask (an HTTP request, a timer, the exit of a      *)
(* child process, a stream event) is taken.  `running` names the handler   *)
(* whose continuation is queued; a macrotask starts only when no handler   *)
(* is running, and a handler stops running when it awaits a timer or a     *)
(* child process, or returns.                                              *)
(***************************************************************************)
EXTENDS Integers, Sequences, FiniteSets, TLC

\* ---------------------------------------------------------------- bounds
MaxJobs    == 1     \* uploads accepted over a run
MaxFiles   == 2     \* files per upload
MaxCancels == 1     \* cancel requests received over a run
MaxDocs    == 2     \* single-document jobs created over a run
MaxProcessCalls == 3  \* process requests received over a run
MaxFaults  == 2     \* Store calls of processJob that throw over a run
MaxConversions == 3 \* Converter calls that write an output file over a run
MaxPolls   == 3     \* status polls of the client (use-pdf-conversion.ts 186: 60)
MaxSelected    == 5    \* files in the client's list of selected files
MaxDrop        == 3    \* files handed to addFiles by one drop

\* ------------------------------------------------------------- constants
Null        == "null"
Now         == "date"                                \* new Date()
CancelError == "Trabalho cancelado pelo usuário"     \* routes.ts:252
ConvError   == "Falha ao processar o arquivo PDF"    \* pdf-processor.ts:351
Terminal    == {"completed", "failed"}

\* A faulty Ticks, for C12: the report before Ghostscript runs is already
\* 100.
TicksFullBeforeGhostscript == <<10, 20, 40, 70, 100, 100>>

\* percentages processFile reports, in order (pdf-processor.ts 119..339)
Ticks == <<10, 20, 40, 70, 90, 100>>
\* processFile can only throw between the 90% and the 100% report: the
\* calls that can fail outside an inner try are fs.copyFileSync (326) and
\* fs.statSync (337).  ThrowTick is the position of the 100% report.
ThrowTick == 6

\* whether processFile awaits a timer or a child process before it reports
\* Ticks[t] (pdf-processor.ts): 10 none; 20 simulateProcessing (123); 40
\* ocrmypdf when applyOcr (137); 70 simulateProcessing (158); 90
\* simulateProcessing when verifyCompliance (164); 100 Ghostscript (216).
WaitsBefore(t, options) ==
  CASE t = 1 -> FALSE
    [] t = 2 -> TRUE
    [] t = 3 -> options.applyOcr
    [] t = 4 -> TRUE
    [] t = 5 -> options.verifyCompliance
    [] OTHER -> TRUE

\* option payloads an upload supplies (conversionOptionsSchema)
OptionSets ==
  { [applyOcr |-> TRUE,  verifyCompliance |-> TRUE,  optimizeSize |-> FALSE],
    [applyOcr |-> FALSE, verifyCompliance |-> FALSE, optimizeSize |-> TRUE] }

VARIABLES
  jobs,           \* MemStorage.jobs : id -> PdfJob (a sequence, ids 1..)
  files,          \* MemStorage.files: id -> PdfFile
  jobCurrentId,   \* MemStorage.jobCurrentId
  fileCurrentId,  \* MemStorage.fileCurrentId
  activeJobs,     \* routes.ts activeJobs Map: jobId -> tracking entry
  timers,         \* pending setTimeout callbacks of processJob (job ids)
  running,        \* the handler whose continuation is a queued microtask
  up,             \* upload handler per job: position and locals
  pj,             \* processJob task per job: position and locals
  cn,             \* cancel handler per job: position and locals
  cancels,        \* cancel requests received so far
  accepted,       \* history: per job, file statuses when a cancel was accepted
  outcome,        \* history: per file, how the Converter call ended
  completedAtWrites, \* history: per job, number of writes of completedAt
  resp,           \* the HTTP response on its way to the client, if any
  pdfJobs,        \* single-document MemStorage.pdfJobs (storage.ts)
  currentId,      \* single-document MemStorage.currentId
  pdfDataStore,   \* routes.ts 378: ids of the jobs with converted data
  convTimers,     \* per single-document job, pending setTimeout callbacks
  processCalls,   \* process requests received so far
  faults,         \* Store calls of processJob that have thrown so far
  toolFailed,     \* history: <<file id, step>> of the Converter steps that failed
  converted,      \* history: the Converter calls that wrote an output file
  outputs,        \* the converted directory: output path -> file id it holds
  conversionState,    \* usePdfConversion: conversionState
  conversionProgress, \* usePdfConversion: conversionProgress
  pollCount,      \* convertFiles: pollCount
  completed,      \* convertFiles: completed
  clientJobId,    \* convertFiles: jobId of the upload response, 0 before it
  clientFiles,    \* convertFiles: files.length of the hook when it was called
  cpc,            \* convertFiles: position of the routine
  lastPoll,       \* history: the File percentages of the latest status poll
  cancelledRun,   \* history: cancelConversion has reset the client
  selectedFiles,  \* usePdfConversion: files (the names of the selected files)
  lastProgress    \* history: per single-document job, the percentage of the
                  \* latest progress answer given while it was processing

vars == <<jobs, files, jobCurrentId, fileCurrentId, activeJobs, timers,
          running, up, pj, cn, cancels, accepted, outcome, completedAtWrites,
          resp, pdfJobs, currentId, pdfDataStore, convTimers, processCalls,
          faults, toolFailed, converted, outputs, conversionState,
          conversionProgress, pollCount, completed, clientJobId, clientFiles,
          cpc, lastPoll, cancelledRun, selectedFiles, lastProgress>>

NoHandler == <<"none", 0>>
NoResponse == [route |-> "none"]

\* ------------------------------------------------------------ MemStorage
CreatePdfJob(job) ==
  [id |-> jobCurrentId, createdAt |-> Now, completedAt |-> Null] @@ job

UpdatePdfJob(id, updates) ==
  [jobs EXCEPT ![id] = updates @@ @]

\* A faulty CreatePdfFile, for C30: the File gets the id of its Job.
CreatePdfFileIdFromJob(file) ==
  [id |-> file.jobId, convertedName |-> Null, convertedSize |-> Null,
   error |-> Null, isPdfA |-> FALSE, hasOcr |-> FALSE, progress |-> 0,
   downloadUrl |-> Null] @@ file

CreatePdfFile(file) ==
  [id |-> fileCurrentId, convertedName |-> Null, convertedSize |-> Null,
   error |-> Null, isPdfA |-> FALSE, hasOcr |-> FALSE, progress |-> 0,
   downloadUrl |-> Null] @@ file

UpdatePdfFile(id, updates) ==
  [files EXCEPT ![id] = updates @@ @]

GetPdfFilesByJobId(jobId) ==
  SelectSeq(files, LAMBDA f : f.jobId = jobId)

\* ----------------------------------------------------------------- Init
Init ==
  /\ jobs = <<>>
  /\ files = <<>>
  /\ jobCurrentId = 1
  /\ fileCurrentId = 1
  /\ activeJobs = <<>>
  /\ timers = {}
  /\ running = NoHandler
  /\ up = <<>>
  /\ pj = <<>>
  /\ cn = <<>>
  /\ cancels = 0
  /\ accepted = <<>>
  /\ outcome = <<>>
  /\ completedAtWrites = <<>>
  /\ resp = NoResponse
  /\ pdfJobs = <<>>
  /\ currentId = 1
  /\ pdfDataStore = {}
  /\ convTimers = <<>>
  /\ processCalls = 0
  /\ faults = 0
  /\ toolFailed = {}
  /\ converted = <<>>
  /\ outputs = <<>>
  /\ conversionState = "idle"
  /\ conversionProgress = 0
  /\ pollCount = 0
  /\ completed = FALSE
  /\ clientJobId = 0
  /\ clientFiles = 0
  /\ cpc = "none"
  /\ lastPoll = <<>>
  /\ cancelledRun = FALSE
  /\ selectedFiles = <<>>
  /\ lastProgress = <<>>

\* the locals of a processJob task that has not read the Job's options yet
NoOptions == [unread |-> TRUE]
IdlePj == [pc |-> "none", files |-> <<>>, idx |-> 0, tick |-> 0,
           options |-> NoOptions, allCompleted |-> FALSE]
IdleCn == [pc |-> "idle", status |-> Null, files |-> <<>>, i |-> 0]

\* --------------------------------------------------- POST /api/pdf/upload
\* routes.ts 60-85: a request with n >= 1 files and valid options arrives;
\* createPdfJob.
UploadCreateJobUpTo(limit, n, options) ==
  /\ running = NoHandler
  /\ jobCurrentId <= limit
  /\ jobs' = Append(jobs, CreatePdfJob([status |-> "pending", options |-> options]))
  /\ jobCurrentId' = jobCurrentId + 1
  /\ up' = Append(up, [pc |-> "files", n |-> n, jobFiles |-> <<>>])
  /\ pj' = Append(pj, IdlePj)
  /\ cn' = Append(cn, IdleCn)
  /\ accepted' = Append(accepted, <<>>)
  /\ completedAtWrites' = Append(completedAtWrites, 0)
  /\ running' = <<"upload", jobCurrentId>>
  /\ UNCHANGED <<files, fileCurrentId, activeJobs, timers, cancels, outcome,
                 resp, pdfJobs, currentId, pdfDataStore, convTimers,
                 processCalls, faults, toolFailed, converted, outputs,
                 conversionState, conversionProgress, pollCount, completed,
                 clientJobId, clientFiles, cpc, lastPoll, cancelledRun,
                 selectedFiles, lastProgress>>

\* the uploads of a run that receives at most MaxJobs of them
UploadCreateJob(n, options) == UploadCreateJobUpTo(MaxJobs, n, options)

\* A faulty UploadCreateFile, for C15: the File is created processing.
UploadCreateFileStarted(j) ==
  /\ running = <<"upload", j>>
  /\ up[j].pc = "files"
  /\ Len(up[j].jobFiles) < up[j].n
  /\ files' = Append(files, CreatePdfFile([jobId |-> j,
                                           originalName |-> "name.pdf",
                                           originalSize |-> "size0",
                                           status |-> "processing",
                                           storagePath |-> "upload"]))
  /\ fileCurrentId' = fileCurrentId + 1
  /\ up' = [up EXCEPT ![j].jobFiles = Append(@, fileCurrentId)]
  /\ outcome' = Append(outcome, "none")
  /\ UNCHANGED <<jobs, jobCurrentId, activeJobs, timers, running, pj, cn,
                 cancels, accepted, completedAtWrites, resp, pdfJobs,
                 currentId, pdfDataStore, convTimers, processCalls, faults,
                 toolFailed, converted, outputs, conversionState,
                 conversionProgress, pollCount, completed, clientJobId,
                 clientFiles, cpc, lastPoll, cancelledRun, selectedFiles,
                 lastProgress>>

\* routes.ts 89-98: one createPdfFile per loop iteration.
UploadCreateFile(j) ==
  /\ running = <<"upload", j>>
  /\ up[j].pc = "files"
  /\ Len(up[j].jobFiles) < up[j].n
  /\ files' = Append(files, CreatePdfFile([jobId |-> j,
                                           originalName |-> "name.pdf",
                                           originalSize |-> "size0",
                                           status |-> "pending",
                                           storagePath |-> "upload"]))
  /\ fileCurrentId' = fileCurrentId + 1
  /\ up' = [up EXCEPT ![j].jobFiles = Append(@, fileCurrentId)]
  /\ outcome' = Append(outcome, "none")
  /\ UNCHANGED <<jobs, jobCurrentId, activeJobs, timers, running, pj, cn,
                 cancels, accepted, completedAtWrites, resp, pdfJobs,
                 currentId, pdfDataStore, convTimers, processCalls, faults,
                 toolFailed, converted, outputs, conversionState,
                 conversionProgress, pollCount, completed, clientJobId,
                 clientFiles, cpc, lastPoll, cancelledRun, selectedFiles,
                 lastProgress>>

\* A faulty UploadFinish, for C16: the handler awaits processJob, and the
\* response is not sent while processJob runs.
UploadFinishAwaitsProcessJob(j) ==
  /\ running = <<"upload", j>>
  /\ up[j].pc = "files"
  /\ Len(up[j].jobFiles) = up[j].n
  /\ jobs' = UpdatePdfJob(j, [status |-> "processing"])
  /\ pj' = [pj EXCEPT ![j] = [IdlePj EXCEPT !.pc = "loop",
                                           !.files = up[j].jobFiles,
                                           !.idx = 1]]
  /\ activeJobs' = (j :> [id |-> j, status |-> "processing",
                          files |-> [k \in 1..up[j].n |->
                                       [id |-> up[j].jobFiles[k],
                                        status |-> "pending",
                                        progress |-> 0]]]) @@ activeJobs
  /\ up' = [up EXCEPT ![j].pc = "await"]
  /\ running' = <<"processJob", j>>
  /\ UNCHANGED <<files, jobCurrentId, fileCurrentId, timers, cn, cancels,
                 accepted, outcome, completedAtWrites, resp, pdfJobs,
                 currentId, pdfDataStore, convTimers, processCalls, faults,
                 toolFailed, converted, outputs, conversionState,
                 conversionProgress, pollCount, completed, clientJobId,
                 clientFiles, cpc, lastPoll, cancelledRun, selectedFiles,
                 lastProgress>>

\* routes.ts 100-118: processJob(job.id, jobFiles) runs up to its first
\* await (281: the Job is written processing), then activeJobs.set and the
\* response.  The handler has returned; processJob's continuation is queued.
UploadFinish(j) ==
  /\ running = <<"upload", j>>
  /\ up[j].pc = "files"
  /\ Len(up[j].jobFiles) = up[j].n
  /\ jobs' = UpdatePdfJob(j, [status |-> "processing"])
  /\ pj' = [pj EXCEPT ![j] = [IdlePj EXCEPT !.pc = "loop",
                                           !.files = up[j].jobFiles,
                                           !.idx = 1]]
  /\ activeJobs' = (j :> [id |-> j, status |-> "processing",
                          files |-> [k \in 1..up[j].n |->
                                       [id |-> up[j].jobFiles[k],
                                        status |-> "pending",
                                        progress |-> 0]]]) @@ activeJobs
  /\ up' = [up EXCEPT ![j].pc = "done"]
  /\ running' = <<"processJob", j>>
  /\ UNCHANGED <<files, jobCurrentId, fileCurrentId, timers, cn, cancels,
                 accepted, outcome, completedAtWrites, resp, pdfJobs,
                 currentId, pdfDataStore, convTimers, processCalls, faults,
                 toolFailed, converted, outputs, conversionState,
                 conversionProgress, pollCount, completed, clientJobId,
                 clientFiles, cpc, lastPoll, cancelledRun, selectedFiles,
                 lastProgress>>

\* ------------------------------------------------------------ processJob
CurFile(j) == pj[j].files[pj[j].idx]

\* A faulty ProcessJobNextFile, for C11: the Files of the batch are started
\* together, every File from the current one on is written processing.
ProcessJobNextFileStartsAll(j) ==
  /\ running = <<"processJob", j>>
  /\ pj[j].pc = "loop"
  /\ pj[j].idx <= Len(pj[j].files)
  /\ files' = [f \in DOMAIN files |->
                IF \E k \in pj[j].idx..Len(pj[j].files) : pj[j].files[k] = f
                THEN [status |-> "processing"] @@ files[f]
                ELSE files[f]]
  /\ pj' = [pj EXCEPT ![j].pc = "getJob"]
  /\ UNCHANGED <<jobs, jobCurrentId, fileCurrentId, activeJobs, timers,
                 running, up, cn, cancels, accepted, outcome,
                 completedAtWrites, resp, pdfJobs, currentId, pdfDataStore,
                 convTimers, processCalls, faults, toolFailed, converted,
                 outputs, conversionState, conversionProgress, pollCount,
                 completed, clientJobId, clientFiles, cpc, lastPoll,
                 cancelledRun, selectedFiles, lastProgress>>

\* routes.ts 284-286: next loop iteration, the File is written processing.
ProcessJobNextFile(j) ==
  /\ running = <<"processJob", j>>
  /\ pj[j].pc = "loop"
  /\ pj[j].idx <= Len(pj[j].files)
  /\ files' = UpdatePdfFile(CurFile(j), [status |-> "processing"])
  /\ pj' = [pj EXCEPT ![j].pc = "getJob"]
  /\ UNCHANGED <<jobs, jobCurrentId, fileCurrentId, activeJobs, timers,
                 running, up, cn, cancels, accepted, outcome,
                 completedAtWrites, resp, pdfJobs, currentId, pdfDataStore,
                 convTimers, processCalls, faults, toolFailed, converted,
                 outputs, conversionState, conversionProgress, pollCount,
                 completed, clientJobId, clientFiles, cpc, lastPoll,
                 cancelledRun, selectedFiles, lastProgress>>

\* routes.ts 290-294: the Job is read for its options; it is never deleted,
\* so `Job not found` is not thrown.
ProcessJobGetJob(j) ==
  /\ running = <<"processJob", j>>
  /\ pj[j].pc = "getJob"
  /\ pj' = [pj EXCEPT ![j].pc = "report", ![j].tick = 1,
                      ![j].options = jobs[j].options]
  /\ UNCHANGED <<jobs, files, jobCurrentId, fileCurrentId, activeJobs,
                 timers, running, up, cn, cancels, accepted, outcome,
                 completedAtWrites, resp, pdfJobs, currentId, pdfDataStore,
                 convTimers, processCalls, faults, toolFailed, converted,
                 outputs, conversionState, conversionProgress, pollCount,
                 completed, clientJobId, clientFiles, cpc, lastPoll,
                 cancelledRun, selectedFiles, lastProgress>>

\* A faulty ProgressCallbackStore, for C13: the percentage written is drawn
\* at random, as the progress route of the single-document API draws it.
ProgressCallbackStoreRandom(j) ==
  /\ pj[j].pc = "report"
  /\ pj[j].tick <= Len(Ticks)
  /\ running = IF WaitsBefore(pj[j].tick, pj[j].options)
               THEN NoHandler ELSE <<"processJob", j>>
  /\ \E p \in {10, 50, 95} : files' = UpdatePdfFile(CurFile(j), [progress |-> p])
  /\ pj' = [pj EXCEPT ![j].pc = "track"]
  /\ running' = <<"processJob", j>>
  /\ UNCHANGED <<jobs, jobCurrentId, fileCurrentId, activeJobs, timers, up,
                 cn, cancels, accepted, outcome, completedAtWrites, resp,
                 pdfJobs, currentId, pdfDataStore, convTimers, processCalls,
                 faults, toolFailed, converted, outputs, conversionState,
                 conversionProgress, pollCount, completed, clientJobId,
                 clientFiles, cpc, lastPoll, cancelledRun, selectedFiles,
                 lastProgress>>

\* routes.ts 297-304 and pdf-processor.ts 119-339: processFile reports its
\* next percentage, after the timer or child process it waits for before
\* that report, and the progress callback writes it to the File record.
ProgressCallbackStore(j) ==
  /\ pj[j].pc = "report"
  /\ pj[j].tick <= Len(Ticks)
  /\ running = IF WaitsBefore(pj[j].tick, pj[j].options)
               THEN NoHandler ELSE <<"processJob", j>>
  /\ files' = UpdatePdfFile(CurFile(j), [progress |-> Ticks[pj[j].tick]])
  /\ pj' = [pj EXCEPT ![j].pc = "track"]
  /\ running' = <<"processJob", j>>
  /\ UNCHANGED <<jobs, jobCurrentId, fileCurrentId, activeJobs, timers, up,
                 cn, cancels, accepted, outcome, completedAtWrites, resp,
                 pdfJobs, currentId, pdfDataStore, convTimers, processCalls,
                 faults, toolFailed, converted, outputs, conversionState,
                 conversionProgress, pollCount, completed, clientJobId,
                 clientFiles, cpc, lastPoll, cancelledRun, selectedFiles,
                 lastProgress>>

\* routes.ts 307-313: the callback updates the tracking entry, when there
\* still is one; processFile goes on, to its next wait or to its return.
ProgressCallbackTrack(j) ==
  /\ running = <<"processJob", j>>
  /\ pj[j].pc = "track"
  /\ activeJobs' =
       IF j \in DOMAIN activeJobs
       THEN [activeJobs EXCEPT ![j].files =
               [k \in DOMAIN @ |->
                  IF @[k].id = CurFile(j)
                  THEN [@[k] EXCEPT !.progress = Ticks[pj[j].tick]]
                  ELSE @[k]]]
       ELSE activeJobs
  /\ pj' = [pj EXCEPT ![j].pc = IF pj[j].tick = Len(Ticks) THEN "result"
                                                           ELSE "report",
                      ![j].tick = @ + 1]
  /\ running' = IF /\ pj[j].tick < Len(Ticks)
                   /\ WaitsBefore(pj[j].tick + 1, pj[j].options)
                THEN NoHandler ELSE <<"processJob", j>>
  /\ UNCHANGED <<jobs, files, jobCurrentId, fileCurrentId, timers, up, cn,
                 cancels, accepted, outcome, completedAtWrites, resp,
                 pdfJobs, currentId, pdfDataStore, convTimers, processCalls,
                 faults, toolFailed, converted, outputs, conversionState,
                 conversionProgress, pollCount, completed, clientJobId,
                 clientFiles, cpc, lastPoll, cancelledRun, selectedFiles,
                 lastProgress>>

\* A faulty ProcessFileThrow, for C10: the per-file handler gives up on the
\* batch and the loop ends.
ProcessFileThrowAbortsBatch(j) ==
  /\ running = NoHandler
  /\ pj[j].pc = "report"
  /\ pj[j].tick = ThrowTick
  /\ files' = UpdatePdfFile(CurFile(j), [status |-> "failed", error |-> ConvError])
  /\ outcome' = [outcome EXCEPT ![CurFile(j)] = "threw"]
  /\ pj' = [pj EXCEPT ![j].pc = "loop", ![j].idx = Len(pj[j].files) + 1,
                      ![j].tick = 0]
  /\ running' = <<"processJob", j>>
  /\ UNCHANGED <<jobs, jobCurrentId, fileCurrentId, activeJobs, timers, up,
                 cn, cancels, accepted, completedAtWrites, resp, pdfJobs,
                 currentId, pdfDataStore, convTimers, processCalls, faults,
                 toolFailed, converted, outputs, conversionState,
                 conversionProgress, pollCount, completed, clientJobId,
                 clientFiles, cpc, lastPoll, cancelledRun, selectedFiles,
                 lastProgress>>

\* pdf-processor.ts 349-352 and routes.ts 328-335: after Ghostscript failed,
\* processFile throws; the per-file handler writes the File failed with the
\* error's message.
ProcessFileThrow(j) ==
  /\ running = NoHandler
  /\ pj[j].pc = "report"
  /\ pj[j].tick = ThrowTick
  /\ files' = UpdatePdfFile(CurFile(j), [status |-> "failed", error |-> ConvError])
  /\ outcome' = [outcome EXCEPT ![CurFile(j)] = "threw"]
  /\ pj' = [pj EXCEPT ![j].pc = "loop", ![j].idx = @ + 1, ![j].tick = 0]
  /\ running' = <<"processJob", j>>
  /\ UNCHANGED <<jobs, jobCurrentId, fileCurrentId, activeJobs, timers, up,
                 cn, cancels, accepted, completedAtWrites, resp, pdfJobs,
                 currentId, pdfDataStore, convTimers, processCalls, faults,
                 toolFailed, converted, outputs, conversionState,
                 conversionProgress, pollCount, completed, clientJobId,
                 clientFiles, cpc, lastPoll, cancelledRun, selectedFiles,
                 lastProgress>>

\* A faulty ProcessJobFileCompleted, for C26: the completion write puts the
\* converted name over the original name.
ProcessJobFileCompletedRenames(j) ==
  /\ running = <<"processJob", j>>
  /\ pj[j].pc = "result"
  /\ files' = UpdatePdfFile(CurFile(j),
                [status |-> "completed", convertedName |-> "name_PDFA2u.pdf",
                 originalName |-> "name_PDFA2u.pdf",
                 convertedSize |-> "size", isPdfA |-> TRUE,
                 hasOcr |-> pj[j].options.applyOcr, progress |-> 100,
                 storagePath |-> "converted",
                 downloadUrl |-> "/files/name_PDFA2u.pdf"])
  /\ outcome' = [outcome EXCEPT ![CurFile(j)] = "returned"]
  /\ pj' = [pj EXCEPT ![j].pc = "loop", ![j].idx = @ + 1, ![j].tick = 0]
  /\ UNCHANGED <<jobs, jobCurrentId, fileCurrentId, activeJobs, timers,
                 running, up, cn, cancels, accepted, completedAtWrites, resp,
                 pdfJobs, currentId, pdfDataStore, convTimers, processCalls,
                 faults, toolFailed, converted, outputs, conversionState,
                 conversionProgress, pollCount, completed, clientJobId,
                 clientFiles, cpc, lastPoll, cancelledRun, selectedFiles,
                 lastProgress>>

\* pdf-processor.ts 342-348 and routes.ts 317-327: processFile returned its
\* result, the File is written completed with the success fields.
ProcessJobFileCompleted(j) ==
  /\ running = <<"processJob", j>>
  /\ pj[j].pc = "result"
  /\ files' = UpdatePdfFile(CurFile(j),
                [status |-> "completed", convertedName |-> "name_PDFA2u.pdf",
                 convertedSize |-> "size", isPdfA |-> TRUE,
                 hasOcr |-> pj[j].options.applyOcr, progress |-> 100,
                 storagePath |-> "converted",
                 downloadUrl |-> "/files/name_PDFA2u.pdf"])
  /\ outcome' = [outcome EXCEPT ![CurFile(j)] = "returned"]
  /\ pj' = [pj EXCEPT ![j].pc = "loop", ![j].idx = @ + 1, ![j].tick = 0]
  /\ UNCHANGED <<jobs, jobCurrentId, fileCurrentId, activeJobs, timers,
                 running, up, cn, cancels, accepted, completedAtWrites, resp,
                 pdfJobs, currentId, pdfDataStore, convTimers, processCalls,
                 faults, toolFailed, converted, outputs, conversionState,
                 conversionProgress, pollCount, completed, clientJobId,
                 clientFiles, cpc, lastPoll, cancelledRun, selectedFiles,
                 lastProgress>>

AllCompleted(fs) ==
  \A k \in DOMAIN fs : fs[k].status = "completed" \/ fs[k].status = "failed"

\* routes.ts 340: the loop is over, the Files of the Job are read.
ProcessJobReadFiles(j) ==
  /\ running = <<"processJob", j>>
  /\ pj[j].pc = "loop"
  /\ pj[j].idx > Len(pj[j].files)
  /\ pj' = [pj EXCEPT ![j].pc = "rollup",
                      ![j].allCompleted = AllCompleted(GetPdfFilesByJobId(j))]
  /\ UNCHANGED <<jobs, files, jobCurrentId, fileCurrentId, activeJobs,
                 timers, running, up, cn, cancels, accepted, outcome,
                 completedAtWrites, resp, pdfJobs, currentId, pdfDataStore,
                 convTimers, processCalls, faults, toolFailed, converted,
                 outputs, conversionState, conversionProgress, pollCount,
                 completed, clientJobId, clientFiles, cpc, lastPoll,
                 cancelledRun, selectedFiles, lastProgress>>

\* A faulty ProcessJobRollup, for C32: the Job is written completed when
\* every File is completed, and is not written at all otherwise.
ProcessJobRollupNoneFailed(j) ==
  /\ running = <<"processJob", j>>
  /\ pj[j].pc = "rollup"
  /\ IF \A k \in DOMAIN GetPdfFilesByJobId(j) :
          GetPdfFilesByJobId(j)[k].status = "completed"
     THEN /\ jobs' = UpdatePdfJob(j, [status |-> "completed", completedAt |-> Now])
          /\ completedAtWrites' = [completedAtWrites EXCEPT ![j] = @ + 1]
          /\ pj' = [pj EXCEPT ![j].pc = "schedule"]
          /\ UNCHANGED running
     ELSE /\ pj' = [pj EXCEPT ![j].pc = "done"]
          /\ running' = NoHandler
          /\ UNCHANGED <<jobs, completedAtWrites>>
  /\ UNCHANGED <<files, jobCurrentId, fileCurrentId, activeJobs, timers, up,
                 cn, cancels, accepted, outcome, resp, pdfJobs, currentId,
                 pdfDataStore, convTimers, processCalls, faults, toolFailed,
                 converted, outputs, conversionState, conversionProgress,
                 pollCount, completed, clientJobId, clientFiles, cpc,
                 lastPoll, cancelledRun, selectedFiles, lastProgress>>

\* routes.ts 341-350: the Job is written completed with completedAt.
ProcessJobRollup(j) ==
  /\ running = <<"processJob", j>>
  /\ pj[j].pc = "rollup"
  /\ IF pj[j].allCompleted
     THEN /\ jobs' = UpdatePdfJob(j, [status |-> "completed", completedAt |-> Now])
          /\ completedAtWrites' = [completedAtWrites EXCEPT ![j] = @ + 1]
          /\ pj' = [pj EXCEPT ![j].pc = "schedule"]
          /\ UNCHANGED running
     ELSE /\ pj' = [pj EXCEPT ![j].pc = "done"]
          /\ running' = NoHandler
          /\ UNCHANGED <<jobs, completedAtWrites>>
  /\ UNCHANGED <<files, jobCurrentId, fileCurrentId, activeJobs, timers, up,
                 cn, cancels, accepted, outcome, resp, pdfJobs, currentId,
                 pdfDataStore, convTimers, processCalls, faults, toolFailed,
                 converted, outputs, conversionState, conversionProgress,
                 pollCount, completed, clientJobId, clientFiles, cpc,
                 lastPoll, cancelledRun, selectedFiles, lastProgress>>

\* A faulty ProcessJobScheduleCleanup, for C27: processJob returns without
\* setting the timer.
ProcessJobScheduleCleanupNoTimer(j) ==
  /\ running = <<"processJob", j>>
  /\ pj[j].pc = "schedule"
  /\ timers' = timers
  /\ pj' = [pj EXCEPT ![j].pc = "done"]
  /\ running' = NoHandler
  /\ UNCHANGED <<jobs, files, jobCurrentId, fileCurrentId, activeJobs, up,
                 cn, cancels, accepted, outcome, completedAtWrites, resp,
                 pdfJobs, currentId, pdfDataStore, convTimers, processCalls,
                 faults, toolFailed, converted, outputs, conversionState,
                 conversionProgress, pollCount, completed, clientJobId,
                 clientFiles, cpc, lastPoll, cancelledRun, selectedFiles,
                 lastProgress>>

\* routes.ts 353-355: setTimeout(..., 5 minutes); processJob returns.
ProcessJobScheduleCleanup(j) ==
  /\ running = <<"processJob", j>>
  /\ pj[j].pc = "schedule"
  /\ timers' = timers \cup {j}
  /\ pj' = [pj EXCEPT ![j].pc = "done"]
  /\ running' = NoHandler
  /\ UNCHANGED <<jobs, files, jobCurrentId, fileCurrentId, activeJobs, up,
                 cn, cancels, accepted, outcome, completedAtWrites, resp,
                 pdfJobs, currentId, pdfDataStore, convTimers, processCalls,
                 faults, toolFailed, converted, outputs, conversionState,
                 conversionProgress, pollCount, completed, clientJobId,
                 clientFiles, cpc, lastPoll, cancelledRun, selectedFiles,
                 lastProgress>>

\* routes.ts 354: the timer fires, activeJobs.delete(jobId).
ActiveJobsTimer(j) ==
  /\ running = NoHandler
  /\ j \in timers
  /\ timers' = timers \ {j}
  /\ activeJobs' = [k \in DOMAIN activeJobs \ {j} |-> activeJobs[k]]
  /\ UNCHANGED <<jobs, files, jobCurrentId, fileCurrentId, running, up, pj,
                 cn, cancels, accepted, outcome, completedAtWrites, resp,
                 pdfJobs, currentId, pdfDataStore, convTimers, processCalls,
                 faults, toolFailed, converted, outputs, conversionState,
                 conversionProgress, pollCount, completed, clientJobId,
                 clientFiles, cpc, lastPoll, cancelledRun, selectedFiles,
                 lastProgress>>

\* --------------------------------------------------- POST /api/pdf/cancel
\* routes.ts 227-233: a request for an existing Job arrives and reads the
\* Job record.
CancelGetJob(j) ==
  /\ running = NoHandler
  /\ cancels < MaxCancels
  /\ cn[j].pc = "idle"
  /\ cancels' = cancels + 1
  /\ cn' = [cn EXCEPT ![j] = [IdleCn EXCEPT !.pc = "check",
                                           !.status = jobs[j].status]]
  /\ running' = <<"cancel", j>>
  /\ UNCHANGED <<jobs, files, jobCurrentId, fileCurrentId, activeJobs,
                 timers, up, pj, accepted, outcome, completedAtWrites, resp,
                 pdfJobs, currentId, pdfDataStore, convTimers, processCalls,
                 faults, toolFailed, converted, outputs, conversionState,
                 conversionProgress, pollCount, completed, clientJobId,
                 clientFiles, cpc, lastPoll, cancelledRun, selectedFiles,
                 lastProgress>>

\* A faulty CancelCheck, for C21: only a failed Job is refused.
CancelCheckFailedOnly(j) ==
  /\ running = <<"cancel", j>>
  /\ cn[j].pc = "check"
  /\ IF cn[j].status = "failed"
     THEN /\ cn' = [cn EXCEPT ![j] = IdleCn]
          /\ running' = NoHandler
          /\ UNCHANGED <<jobs, accepted>>
     ELSE /\ jobs' = UpdatePdfJob(j, [status |-> "failed"])
          /\ cn' = [cn EXCEPT ![j].pc = "list"]
          /\ accepted' = [accepted EXCEPT ![j] =
                            [f \in {k \in DOMAIN files : files[k].jobId = j}
                               |-> files[f].status]]
          /\ UNCHANGED running
  /\ UNCHANGED <<files, jobCurrentId, fileCurrentId, activeJobs, timers, up,
                 pj, cancels, outcome, completedAtWrites, resp, pdfJobs,
                 currentId, pdfDataStore, convTimers, processCalls, faults,
                 toolFailed, converted, outputs, conversionState,
                 conversionProgress, pollCount, completed, clientJobId,
                 clientFiles, cpc, lastPoll, cancelledRun, selectedFiles,
                 lastProgress>>

\* routes.ts 239-244: a terminal Job is refused (400); otherwise the cancel
\* is accepted and the Job is written failed.
CancelCheck(j) ==
  /\ running = <<"cancel", j>>
  /\ cn[j].pc = "check"
  /\ IF cn[j].status = "completed" \/ cn[j].status = "failed"
     THEN /\ cn' = [cn EXCEPT ![j] = IdleCn]
          /\ running' = NoHandler
          /\ UNCHANGED <<jobs, accepted>>
     ELSE /\ jobs' = UpdatePdfJob(j, [status |-> "failed"])
          /\ cn' = [cn EXCEPT ![j].pc = "list"]
          /\ accepted' = [accepted EXCEPT ![j] =
                            [f \in {k \in DOMAIN files : files[k].jobId = j}
                               |-> files[f].status]]
          /\ UNCHANGED running
  /\ UNCHANGED <<files, jobCurrentId, fileCurrentId, activeJobs, timers, up,
                 pj, cancels, outcome, completedAtWrites, resp, pdfJobs,
                 currentId, pdfDataStore, convTimers, processCalls, faults,
                 toolFailed, converted, outputs, conversionState,
                 conversionProgress, pollCount, completed, clientJobId,
                 clientFiles, cpc, lastPoll, cancelledRun, selectedFiles,
                 lastProgress>>

\* A faulty CancelListFiles, for C29: the handler reads the Files of every
\* Job, not of the Job it cancels.
CancelListFilesAllJobs(j) ==
  /\ running = <<"cancel", j>>
  /\ cn[j].pc = "list"
  /\ cn' = [cn EXCEPT ![j].pc = "loop", ![j].i = 1,
                      ![j].files = [k \in DOMAIN files |->
                                      [id |-> files[k].id,
                                       status |-> files[k].status]]]
  /\ UNCHANGED <<jobs, files, jobCurrentId, fileCurrentId, activeJobs,
                 timers, running, up, pj, cancels, accepted, outcome,
                 completedAtWrites, resp, pdfJobs, currentId, pdfDataStore,
                 convTimers, processCalls, faults, toolFailed, converted,
                 outputs, conversionState, conversionProgress, pollCount,
                 completed, clientJobId, clientFiles, cpc, lastPoll,
                 cancelledRun, selectedFiles, lastProgress>>

\* routes.ts 247: the Files of the Job are read; of the records read the
\* handler uses the id and the status only.
CancelListFiles(j) ==
  /\ running = <<"cancel", j>>
  /\ cn[j].pc = "list"
  /\ cn' = [cn EXCEPT ![j].pc = "loop", ![j].i = 1,
                      ![j].files = [k \in DOMAIN GetPdfFilesByJobId(j) |->
                                      [id |-> GetPdfFilesByJobId(j)[k].id,
                                       status |-> GetPdfFilesByJobId(j)[k].status]]]
  /\ UNCHANGED <<jobs, files, jobCurrentId, fileCurrentId, activeJobs,
                 timers, running, up, pj, cancels, accepted, outcome,
                 completedAtWrites, resp, pdfJobs, currentId, pdfDataStore,
                 convTimers, processCalls, faults, toolFailed, converted,
                 outputs, conversionState, conversionProgress, pollCount,
                 completed, clientJobId, clientFiles, cpc, lastPoll,
                 cancelledRun, selectedFiles, lastProgress>>

\* index of the next File of the list read at 247, from position i on, that
\* the list shows pending or processing; 0 when there is none
RECURSIVE NextToFail(_, _)
NextToFail(fs, i) ==
  IF i > Len(fs) THEN 0
  ELSE IF fs[i].status = "pending" \/ fs[i].status = "processing" THEN i
  ELSE NextToFail(fs, i + 1)

\* routes.ts 248-255: the next such File is written failed.
CancelFailFile(j) ==
  /\ running = <<"cancel", j>>
  /\ cn[j].pc = "loop"
  /\ NextToFail(cn[j].files, cn[j].i) # 0
  /\ LET k == NextToFail(cn[j].files, cn[j].i) IN
       /\ files' = UpdatePdfFile(cn[j].files[k].id,
                                 [status |-> "failed", error |-> CancelError])
       /\ cn' = [cn EXCEPT ![j].i = k + 1]
  /\ UNCHANGED <<jobs, jobCurrentId, fileCurrentId, activeJobs, timers,
                 running, up, pj, cancels, accepted, outcome,
                 completedAtWrites, resp, pdfJobs, currentId, pdfDataStore,
                 convTimers, processCalls, faults, toolFailed, converted,
                 outputs, conversionState, conversionProgress, pollCount,
                 completed, clientJobId, clientFiles, cpc, lastPoll,
                 cancelledRun, selectedFiles, lastProgress>>

\* routes.ts 257-263: activeJobs.delete, cleanupJob (a log line), response.
CancelFinish(j) ==
  /\ running = <<"cancel", j>>
  /\ cn[j].pc = "loop"
  /\ NextToFail(cn[j].files, cn[j].i) = 0
  /\ activeJobs' = [k \in DOMAIN activeJobs \ {j} |-> activeJobs[k]]
  /\ cn' = [cn EXCEPT ![j] = IdleCn]
  /\ running' = NoHandler
  /\ UNCHANGED <<jobs, files, jobCurrentId, fileCurrentId, timers, up, pj,
                 cancels, accepted, outcome, completedAtWrites, resp,
                 pdfJobs, currentId, pdfDataStore, convTimers, processCalls,
                 faults, toolFailed, converted, outputs, conversionState,
                 conversionProgress, pollCount, completed, clientJobId,
                 clientFiles, cpc, lastPoll, cancelledRun, selectedFiles,
                 lastProgress>>

Next ==
  \/ \E n \in 1..MaxFiles, o \in OptionSets : UploadCreateJob(n, o)
  \/ \E j \in DOMAIN jobs : UploadCreateFile(j)
  \/ \E j \in DOMAIN jobs : UploadFinish(j)
  \/ \E j \in DOMAIN jobs : ProcessJobNextFile(j)
  \/ \E j \in DOMAIN jobs : ProcessJobGetJob(j)
  \/ \E j \in DOMAIN jobs : ProgressCallbackStore(j)
  \/ \E j \in DOMAIN jobs : ProgressCallbackTrack(j)
  \/ \E j \in DOMAIN jobs : ProcessFileThrow(j)
  \/ \E j \in DOMAIN jobs : ProcessJobFileCompleted(j)
  \/ \E j \in DOMAIN jobs : ProcessJobReadFiles(j)
  \/ \E j \in DOMAIN jobs : ProcessJobRollup(j)
  \/ \E j \in DOMAIN jobs : ProcessJobScheduleCleanup(j)
  \/ \E j \in DOMAIN jobs : ActiveJobsTimer(j)
  \/ \E j \in DOMAIN jobs : CancelGetJob(j)
  \/ \E j \in DOMAIN jobs : CancelCheck(j)
  \/ \E j \in DOMAIN jobs : CancelListFiles(j)
  \/ \E j \in DOMAIN jobs : CancelFailFile(j)
  \/ \E j \in DOMAIN jobs : CancelFinish(j)

Spec == Init /\ [][Next]_vars

\* -------------------------------------------------------------- two Jobs
\* SpecTwo is Spec with one more upload, of a single file, so that there
\* are runs with two Jobs whose processJob tasks and cancels interleave.
NextTwo ==
  \/ Next
  \/ \E o \in OptionSets : UploadCreateJobUpTo(MaxJobs + 1, 1, o)

SpecTwo == Init /\ [][NextTwo]_vars

\* ------------------------------------------------------------- fairness
\* SpecLive is Spec with the scheduling Node guarantees.  The continuation
\* of an await is a microtask and runs before the event loop takes anything
\* else: a handler that has started goes on (HandlerStep), and so does
\* processJob (ProcessJobStep), whose waits inside processFile are timers
\* and child processes that end.  A timer that was set fires once the loop
\* is free, which it is again and again.  That requests arrive is not
\* assumed.
HandlerStep(j) ==
  /\ j \in DOMAIN jobs
  /\ \/ UploadCreateFile(j)
     \/ UploadFinish(j)
     \/ CancelCheck(j)
     \/ CancelListFiles(j)
     \/ CancelFailFile(j)
     \/ CancelFinish(j)

ProcessJobStep(j) ==
  /\ j \in DOMAIN jobs
  /\ \/ ProcessJobNextFile(j)
     \/ ProcessJobGetJob(j)
     \/ ProgressCallbackStore(j)
     \/ ProgressCallbackTrack(j)
     \/ ProcessFileThrow(j)
     \/ ProcessJobFileCompleted(j)
     \/ ProcessJobReadFiles(j)
     \/ ProcessJobRollup(j)
     \/ ProcessJobScheduleCleanup(j)

SpecLive ==
  /\ Init /\ [][Next]_vars
  /\ \A j \in 1..MaxJobs :
       /\ WF_vars(HandlerStep(j))
       /\ SF_vars(ProcessJobStep(j))
       /\ SF_vars(ActiveJobsTimer(j))

\* ========================================================== Store faults
\* SpecFault adds a Store that can fail: a call of an IStorage method made
\* by processJob outside the per-file try block rejects (MemStorage's own
\* writes reject with `... not found`, vite.config.ts 78 and 111).  The
\* rejection is thrown at the await and lands in processJob's outer catch.

\* routes.ts 101 and 281: the first write of processJob, the Job written
\* processing, rejects; the upload handler goes on as in UploadFinish.
UploadFinishStoreFault(j) ==
  /\ running = <<"upload", j>>
  /\ up[j].pc = "files"
  /\ Len(up[j].jobFiles) = up[j].n
  /\ faults < MaxFaults
  /\ faults' = faults + 1
  /\ pj' = [pj EXCEPT ![j] = [IdlePj EXCEPT !.pc = "catch",
                                           !.files = up[j].jobFiles,
                                           !.idx = 1]]
  /\ activeJobs' = (j :> [id |-> j, status |-> "processing",
                          files |-> [k \in 1..up[j].n |->
                                       [id |-> up[j].jobFiles[k],
                                        status |-> "pending",
                                        progress |-> 0]]]) @@ activeJobs
  /\ up' = [up EXCEPT ![j].pc = "done"]
  /\ running' = <<"processJob", j>>
  /\ UNCHANGED <<jobs, files, jobCurrentId, fileCurrentId, timers, cn,
                 cancels, accepted, outcome, completedAtWrites, resp,
                 pdfJobs, currentId, pdfDataStore, convTimers, processCalls,
                 toolFailed, converted, outputs, conversionState,
                 conversionProgress, pollCount, completed, clientJobId,
                 clientFiles, cpc, lastPoll, cancelledRun, selectedFiles,
                 lastProgress>>

\* routes.ts 286, 340, 347: the write of the next File to processing, the
\* read of the Files after the loop, or the rollup write rejects.
ProcessJobStoreFault(j) ==
  /\ running = <<"processJob", j>>
  /\ pj[j].pc \in {"loop", "rollup"}
  /\ faults < MaxFaults
  /\ faults' = faults + 1
  /\ pj' = [pj EXCEPT ![j].pc = "catch"]
  /\ UNCHANGED <<jobs, files, jobCurrentId, fileCurrentId, activeJobs,
                 timers, running, up, cn, cancels, accepted, outcome,
                 completedAtWrites, resp, pdfJobs, currentId, pdfDataStore,
                 convTimers, processCalls, toolFailed, converted, outputs,
                 conversionState, conversionProgress, pollCount, completed,
                 clientJobId, clientFiles, cpc, lastPoll, cancelledRun,
                 selectedFiles, lastProgress>>

\* routes.ts 357-361: the outer catch writes the Job failed; processJob
\* returns.
ProcessJobCatch(j) ==
  /\ running = <<"processJob", j>>
  /\ pj[j].pc = "catch"
  /\ jobs' = UpdatePdfJob(j, [status |-> "failed"])
  /\ pj' = [pj EXCEPT ![j].pc = "caught"]
  /\ running' = NoHandler
  /\ UNCHANGED <<files, jobCurrentId, fileCurrentId, activeJobs, timers, up,
                 cn, cancels, accepted, outcome, completedAtWrites, resp,
                 pdfJobs, currentId, pdfDataStore, convTimers, processCalls,
                 faults, toolFailed, converted, outputs, conversionState,
                 conversionProgress, pollCount, completed, clientJobId,
                 clientFiles, cpc, lastPoll, cancelledRun, selectedFiles,
                 lastProgress>>

\* routes.ts 361 and 101: the write in the outer catch rejects as well.  It
\* is not inside a try block, so the promise of processJob rejects, and the
\* upload handler, which called processJob without await or catch, does not
\* handle it.
ProcessJobCatchStoreFault(j) ==
  /\ running = <<"processJob", j>>
  /\ pj[j].pc = "catch"
  /\ faults < MaxFaults
  /\ faults' = faults + 1
  /\ pj' = [pj EXCEPT ![j].pc = "escaped"]
  /\ running' = NoHandler
  /\ UNCHANGED <<jobs, files, jobCurrentId, fileCurrentId, activeJobs,
                 timers, up, cn, cancels, accepted, outcome,
                 completedAtWrites, resp, pdfJobs, currentId, pdfDataStore,
                 convTimers, processCalls, toolFailed, converted, outputs,
                 conversionState, conversionProgress, pollCount, completed,
                 clientJobId, clientFiles, cpc, lastPoll, cancelledRun,
                 selectedFiles, lastProgress>>

NextFault ==
  \/ Next
  \/ \E j \in DOMAIN jobs : UploadFinishStoreFault(j)
  \/ \E j \in DOMAIN jobs : ProcessJobStoreFault(j)
  \/ \E j \in DOMAIN jobs : ProcessJobCatch(j)
  \/ \E j \in DOMAIN jobs : ProcessJobCatchStoreFault(j)

SpecFault == Init /\ [][NextFault]_vars

\* ==================================================== Converter failures
\* SpecConverter adds the two child processes of processFile failing.  Each
\* failure is caught inside processFile, which goes on to its next report.
\* toolFailed records the failures; the code keeps no such record.

\* pdf-processor.ts 129-156: ocrmypdf exits with an error or is not
\* installed; the inner catch logs it, the original file is kept as the
\* input of the next steps, and 40 is reported.
OcrToolFails(j) ==
  /\ pj[j].pc = "report"
  /\ pj[j].tick = 3
  /\ pj[j].options.applyOcr
  /\ running = NoHandler
  /\ files' = UpdatePdfFile(CurFile(j), [progress |-> Ticks[pj[j].tick]])
  /\ pj' = [pj EXCEPT ![j].pc = "track"]
  /\ running' = <<"processJob", j>>
  /\ toolFailed' = toolFailed \cup {<<CurFile(j), "ocr">>}
  /\ UNCHANGED <<jobs, jobCurrentId, fileCurrentId, activeJobs, timers, up,
                 cn, cancels, accepted, outcome, completedAtWrites, resp,
                 pdfJobs, currentId, pdfDataStore, convTimers, processCalls,
                 faults, converted, outputs, conversionState,
                 conversionProgress, pollCount, completed, clientJobId,
                 clientFiles, cpc, lastPoll, cancelledRun, selectedFiles,
                 lastProgress>>

\* pdf-processor.ts 213-339: Ghostscript exits with an error or is not
\* installed; the output is then the placeholder document written with
\* pdf-lib (239-321) or, when that fails too, a copy of the original (326),
\* and 100 is reported.
GhostscriptFails(j, copied) ==
  /\ pj[j].pc = "report"
  /\ pj[j].tick = Len(Ticks)
  /\ running = NoHandler
  /\ files' = UpdatePdfFile(CurFile(j), [progress |-> Ticks[pj[j].tick]])
  /\ pj' = [pj EXCEPT ![j].pc = "track"]
  /\ running' = <<"processJob", j>>
  /\ toolFailed' = toolFailed \cup
       ({<<CurFile(j), "ghostscript">>} \cup
        IF copied THEN {<<CurFile(j), "copied">>} ELSE {})
  /\ UNCHANGED <<jobs, jobCurrentId, fileCurrentId, activeJobs, timers, up,
                 cn, cancels, accepted, outcome, completedAtWrites, resp,
                 pdfJobs, currentId, pdfDataStore, convTimers, processCalls,
                 faults, converted, outputs, conversionState,
                 conversionProgress, pollCount, completed, clientJobId,
                 clientFiles, cpc, lastPoll, cancelledRun, selectedFiles,
                 lastProgress>>

NextConverter ==
  \/ Next
  \/ \E j \in DOMAIN jobs : OcrToolFails(j)
  \/ \E j \in DOMAIN jobs : \E copied \in BOOLEAN : GhostscriptFails(j, copied)

SpecConverter == Init /\ [][NextConverter]_vars

\* ========================================================= files on disk
\* SpecPaths follows the paths of the files on disk: the name multer gives
\* an uploaded file and the path processFile writes its output to.  A file
\* name is the sequence of its parts, the last part being its extension
\* when it has one.
FileNames == { <<"a", ".pdf">>, <<"a", ".PDF">>, <<"b", ".pdf">> }

\* part_006 21-24: originalFilename.replace(/\.pdf$/i, '') + '_PDFA2u.pdf'
GeneratePdfaFilename(originalFilename) ==
  LET n == Len(originalFilename)
      baseName == IF n > 0 /\ originalFilename[n] \in {".pdf", ".PDF", ".Pdf"}
                  THEN SubSeq(originalFilename, 1, n - 1)
                  ELSE originalFilename
  IN  baseName \o <<"_PDFA2u.pdf">>

\* routes.ts 30-33: `${randomUUID()}-${file.originalname}`; a random UUID
\* is a name no other upload has.
MulterFilename(uuid, originalname) == [uuid |-> uuid, name |-> originalname]

\* routes.ts 27-33 and pdf-processor.ts 179-181, 216, 323, 326: a File of
\* Job jobId uploaded under originalName is stored in uploads and converted;
\* outputPath is join(outputDir, generatePdfaFilename(originalName)), and
\* Ghostscript, renameSync and copyFileSync all replace a file that is
\* already there.
ProcessFileOutput(jobId, originalName) ==
  LET id == Len(converted) + 1
      outputPath == <<"converted">> \o GeneratePdfaFilename(originalName)
  IN  /\ id <= MaxConversions
      /\ converted' = Append(converted,
                        [id |-> id, jobId |-> jobId,
                         originalName |-> originalName,
                         uploadPath |-> MulterFilename(id, originalName),
                         outputPath |-> outputPath])
      /\ outputs' = (outputPath :> id) @@ outputs
      /\ UNCHANGED <<jobs, files, jobCurrentId, fileCurrentId, activeJobs,
                     timers, running, up, pj, cn, cancels, accepted, outcome,
                     completedAtWrites, resp, pdfJobs, currentId,
                     pdfDataStore, convTimers, processCalls, faults,
                     toolFailed, conversionState, conversionProgress,
                     pollCount, completed, clientJobId, clientFiles, cpc,
                     lastPoll, cancelledRun, selectedFiles, lastProgress>>

NextPaths ==
  \E jobId \in 1..2 : \E originalName \in FileNames :
    ProcessFileOutput(jobId, originalName)

SpecPaths == Init /\ [][NextPaths]_vars

\* ============================================== requests and responses
\* SpecApi adds the requests that are answered from the store without
\* changing it, and the uploads the validation turns away.  A request is a
\* macrotask: it is taken when no handler is running.  The handlers of the
\* three GET routes await MemStorage reads only, so each runs to its
\* response without another handler in between and is one action.  resp is
\* the response from the moment the handler sends it until the client has
\* it; the client takes it before the server's next step (taking it changes
\* nothing on the server, so no run of the server is lost).

FileSizeLimit == 20      \* MB, routes.ts 36

\* an uploaded file as multer sees it: declared type, whether its name ends
\* with .pdf (any letter case), size in MB.  A PDF by type and name, one by
\* type only, one by name only, a file that is neither, and a large PDF.
UploadedFiles ==
  { [mimetype |-> "application/pdf", pdfName |-> TRUE,  size |-> 1],
    [mimetype |-> "application/pdf", pdfName |-> FALSE, size |-> 1],
    [mimetype |-> "text/plain",      pdfName |-> TRUE,  size |-> 1],
    [mimetype |-> "text/plain",      pdfName |-> FALSE, size |-> 1],
    [mimetype |-> "application/pdf", pdfName |-> TRUE,  size |-> 25] }

\* a payload conversionOptionsSchema rejects, or text JSON.parse rejects
InvalidOptions == [malformed |-> TRUE]

RECURSIVE SeqsUpTo(_, _)
SeqsUpTo(S, n) ==
  IF n = 0 THEN {<<>>}
  ELSE SeqsUpTo(S, n - 1) \cup
       {Append(q, x) : q \in {q \in SeqsUpTo(S, n - 1) : Len(q) = n - 1}, x \in S}

UploadRequests ==
  [files : SeqsUpTo(UploadedFiles, MaxFiles),
   options : OptionSets \cup {InvalidOptions}]

\* routes.ts 38-44: multer's fileFilter accepts the file
FileFilter(file) ==
  ~(file.mimetype # "application/pdf" /\ ~file.pdfName)

\* A faulty UploadVerdict, for C17: no fileFilter is configured.
UploadVerdictNoFilter(req) ==
  IF \E i \in DOMAIN req.files : req.files[i].size > FileSizeLimit
  THEN "middleware"
  ELSE IF Len(req.files) = 0 THEN "Nenhum arquivo foi enviado"
  ELSE IF req.options = InvalidOptions THEN "Opções de conversão inválidas"
  ELSE "ok"

\* routes.ts 25-45 and 60-79: what becomes of an upload.  upload.array runs
\* before the handler: a file the fileFilter refuses or one over the size
\* limit ends the request with an error and the handler is not called.  The
\* handler refuses a request without files, then one whose options do not
\* parse.
UploadVerdict(req) ==
  IF \E i \in DOMAIN req.files :
       \/ ~FileFilter(req.files[i])
       \/ req.files[i].size > FileSizeLimit
  THEN "middleware"
  ELSE IF Len(req.files) = 0 THEN "Nenhum arquivo foi enviado"
  ELSE IF req.options = InvalidOptions THEN "Opções de conversão inválidas"
  ELSE "ok"

\* POST /api/pdf/upload with any request: an accepted one starts the handler
\* (UploadCreateJob), a refused one is answered at once.  An error of the
\* middleware goes to next(err), which answers with an error status (500
\* when the error carries none, as these do).
UploadRequest(req) ==
  /\ running = NoHandler
  /\ resp = NoResponse
  /\ IF UploadVerdict(req) = "ok"
     THEN UploadCreateJob(Len(req.files), req.options)
     ELSE /\ resp' = [route |-> "upload", id |-> 0,
                      code |-> IF UploadVerdict(req) = "middleware"
                               THEN 500 ELSE 400,
                      error |-> UploadVerdict(req)]
          /\ UNCHANGED <<jobs, files, jobCurrentId, fileCurrentId,
                         activeJobs, timers, running, up, pj, cn, cancels,
                         accepted, outcome, completedAtWrites, pdfJobs,
                         currentId, pdfDataStore, convTimers, processCalls,
                         faults, toolFailed, converted, outputs,
                         conversionState, conversionProgress, pollCount,
                         completed, clientJobId, clientFiles, cpc, lastPoll,
                         cancelledRun, selectedFiles, lastProgress>>

\* routes.ts 148: file.progress || 0
Percentage(file) == IF file.progress = 0 THEN 0 ELSE file.progress

\* A faulty StatusRequest, for C22: the handler brings the tracking entry
\* of the Job up to date with the Store before it answers.
StatusRequestSyncsTracking(id) ==
  /\ running = NoHandler
  /\ resp = NoResponse
  /\ activeJobs' =
       IF id \in DOMAIN activeJobs
       THEN [activeJobs EXCEPT ![id].status = jobs[id].status]
       ELSE activeJobs
  /\ resp' =
       IF id \notin DOMAIN jobs
       THEN [route |-> "status", id |-> id, code |-> 404,
             error |-> "Trabalho não encontrado"]
       ELSE [route |-> "status", id |-> id, code |-> 200,
             jobId |-> jobs[id].id, status |-> jobs[id].status,
             files |-> [k \in DOMAIN GetPdfFilesByJobId(id) |->
                          LET file == GetPdfFilesByJobId(id)[k] IN
                            [fileId |-> file.id, name |-> file.originalName,
                             status |-> file.status,
                             percentage |-> IF file.progress = 0 THEN 0
                                            ELSE file.progress,
                             error |-> file.error]]]
  /\ UNCHANGED <<jobs, files, jobCurrentId, fileCurrentId, timers, running,
                 up, pj, cn, cancels, accepted, outcome, completedAtWrites,
                 pdfJobs, currentId, pdfDataStore, convTimers, processCalls,
                 faults, toolFailed, converted, outputs, conversionState,
                 conversionProgress, pollCount, completed, clientJobId,
                 clientFiles, cpc, lastPoll, cancelledRun, selectedFiles,
                 lastProgress>>

\* routes.ts 126-157: GET /api/pdf/status/:jobId
StatusRequest(id) ==
  /\ running = NoHandler
  /\ resp = NoResponse
  /\ resp' =
       IF id \notin DOMAIN jobs
       THEN [route |-> "status", id |-> id, code |-> 404,
             error |-> "Trabalho não encontrado"]
       ELSE [route |-> "status", id |-> id, code |-> 200,
             jobId |-> jobs[id].id, status |-> jobs[id].status,
             files |-> [k \in DOMAIN GetPdfFilesByJobId(id) |->
                          LET file == GetPdfFilesByJobId(id)[k] IN
                            [fileId |-> file.id, name |-> file.originalName,
                             status |-> file.status,
                             percentage |-> Percentage(file),
                             error |-> file.error]]]
  /\ UNCHANGED <<jobs, files, jobCurrentId, fileCurrentId, activeJobs,
                 timers, running, up, pj, cn, cancels, accepted, outcome,
                 completedAtWrites, pdfJobs, currentId, pdfDataStore,
                 convTimers, processCalls, faults, toolFailed, converted,
                 outputs, conversionState, conversionProgress, pollCount,
                 completed, clientJobId, clientFiles, cpc, lastPoll,
                 cancelledRun, selectedFiles, lastProgress>>

\* A faulty ResultsRequest, for C18: any Job that is no longer running gets
\* its results.
ResultsRequestWhenTerminal(id) ==
  /\ running = NoHandler
  /\ resp = NoResponse
  /\ resp' =
       IF id \notin DOMAIN jobs
       THEN [route |-> "results", id |-> id, code |-> 404,
             error |-> "Trabalho não encontrado"]
       ELSE IF jobs[id].status \notin Terminal
       THEN [route |-> "results", id |-> id, code |-> 400,
             error |-> "Conversão ainda não foi concluída"]
       ELSE [route |-> "results", id |-> id, code |-> 200,
             jobId |-> jobs[id].id, status |-> jobs[id].status,
             files |-> [k \in DOMAIN GetPdfFilesByJobId(id) |->
                          LET file == GetPdfFilesByJobId(id)[k] IN
                            [id |-> file.id,
                             name |-> IF file.convertedName # Null
                                      THEN file.convertedName
                                      ELSE file.originalName,
                             size |-> IF file.convertedSize # Null
                                      THEN file.convertedSize
                                      ELSE file.originalSize,
                             url |-> IF file.downloadUrl # Null
                                     THEN file.downloadUrl ELSE "",
                             hasPdfA |-> file.isPdfA,
                             hasOcr |-> file.hasOcr]]]
  /\ UNCHANGED <<jobs, files, jobCurrentId, fileCurrentId, activeJobs,
                 timers, running, up, pj, cn, cancels, accepted, outcome,
                 completedAtWrites, pdfJobs, currentId, pdfDataStore,
                 convTimers, processCalls, faults, toolFailed, converted,
                 outputs, conversionState, conversionProgress, pollCount,
                 completed, clientJobId, clientFiles, cpc, lastPoll,
                 cancelledRun, selectedFiles, lastProgress>>

\* A faulty ResultsRequest, for C19: only the completed Files are listed.
ResultsRequestCompletedFiles(id) ==
  /\ running = NoHandler
  /\ resp = NoResponse
  /\ resp' =
       IF id \notin DOMAIN jobs
       THEN [route |-> "results", id |-> id, code |-> 404,
             error |-> "Trabalho não encontrado"]
       ELSE IF jobs[id].status # "completed"
       THEN [route |-> "results", id |-> id, code |-> 400,
             error |-> "Conversão ainda não foi concluída"]
       ELSE [route |-> "results", id |-> id, code |-> 200,
             jobId |-> jobs[id].id, status |-> jobs[id].status,
             files |-> LET done == SelectSeq(GetPdfFilesByJobId(id),
                                     LAMBDA f : f.status = "completed") IN
                       [k \in DOMAIN done |->
                          LET file == done[k] IN
                            [id |-> file.id,
                             name |-> IF file.convertedName # Null
                                      THEN file.convertedName
                                      ELSE file.originalName,
                             size |-> IF file.convertedSize # Null
                                      THEN file.convertedSize
                                      ELSE file.originalSize,
                             url |-> IF file.downloadUrl # Null
                                     THEN file.downloadUrl ELSE "",
                             hasPdfA |-> file.isPdfA,
                             hasOcr |-> file.hasOcr]]]
  /\ UNCHANGED <<jobs, files, jobCurrentId, fileCurrentId, activeJobs,
                 timers, running, up, pj, cn, cancels, accepted, outcome,
                 completedAtWrites, pdfJobs, currentId, pdfDataStore,
                 convTimers, processCalls, faults, toolFailed, converted,
                 outputs, conversionState, conversionProgress, pollCount,
                 completed, clientJobId, clientFiles, cpc, lastPoll,
                 cancelledRun, selectedFiles, lastProgress>>

\* routes.ts 160-196: GET /api/pdf/results/:jobId
ResultsRequest(id) ==
  /\ running = NoHandler
  /\ resp = NoResponse
  /\ resp' =
       IF id \notin DOMAIN jobs
       THEN [route |-> "results", id |-> id, code |-> 404,
             error |-> "Trabalho não encontrado"]
       ELSE IF jobs[id].status # "completed"
       THEN [route |-> "results", id |-> id, code |-> 400,
             error |-> "Conversão ainda não foi concluída"]
       ELSE [route |-> "results", id |-> id, code |-> 200,
             jobId |-> jobs[id].id, status |-> jobs[id].status,
             files |-> [k \in DOMAIN GetPdfFilesByJobId(id) |->
                          LET file == GetPdfFilesByJobId(id)[k] IN
                            [id |-> file.id,
                             name |-> IF file.convertedName # Null
                                      THEN file.convertedName
                                      ELSE file.originalName,
                             size |-> IF file.convertedSize # Null
                                      THEN file.convertedSize
                                      ELSE file.originalSize,
                             url |-> IF file.downloadUrl # Null
                                     THEN file.downloadUrl ELSE "",
                             hasPdfA |-> file.isPdfA,
                             hasOcr |-> file.hasOcr]]]
  /\ UNCHANGED <<jobs, files, jobCurrentId, fileCurrentId, activeJobs,
                 timers, running, up, pj, cn, cancels, accepted, outcome,
                 completedAtWrites, pdfJobs, currentId, pdfDataStore,
                 convTimers, processCalls, faults, toolFailed, converted,
                 outputs, conversionState, conversionProgress, pollCount,
                 completed, clientJobId, clientFiles, cpc, lastPoll,
                 cancelledRun, selectedFiles, lastProgress>>

\* A faulty DownloadRequest, for C20: the test is on the status of the Job.
DownloadRequestByJobStatus(id) ==
  /\ running = NoHandler
  /\ resp = NoResponse
  /\ resp' =
       IF id \notin DOMAIN files
       THEN [route |-> "download", id |-> id, code |-> 404,
             error |-> "Arquivo não encontrado"]
       ELSE IF jobs[files[id].jobId].status # "completed"
               \/ files[id].storagePath \in {Null, ""}
       THEN [route |-> "download", id |-> id, code |-> 400,
             error |-> "Arquivo não está disponível para download"]
       ELSE [route |-> "download", id |-> id, code |-> 200,
             path |-> files[id].storagePath,
             filename |-> IF files[id].convertedName # Null
                          THEN files[id].convertedName
                          ELSE files[id].originalName]
  /\ UNCHANGED <<jobs, files, jobCurrentId, fileCurrentId, activeJobs,
                 timers, running, up, pj, cn, cancels, accepted, outcome,
                 completedAtWrites, pdfJobs, currentId, pdfDataStore,
                 convTimers, processCalls, faults, toolFailed, converted,
                 outputs, conversionState, conversionProgress, pollCount,
                 completed, clientJobId, clientFiles, cpc, lastPoll,
                 cancelledRun, selectedFiles, lastProgress>>

\* routes.ts 199-222: GET /api/pdf/download/:fileId
DownloadRequest(id) ==
  /\ running = NoHandler
  /\ resp = NoResponse
  /\ resp' =
       IF id \notin DOMAIN files
       THEN [route |-> "download", id |-> id, code |-> 404,
             error |-> "Arquivo não encontrado"]
       ELSE IF files[id].status # "completed"
               \/ files[id].storagePath \in {Null, ""}
       THEN [route |-> "download", id |-> id, code |-> 400,
             error |-> "Arquivo não está disponível para download"]
       ELSE [route |-> "download", id |-> id, code |-> 200,
             path |-> files[id].storagePath,
             filename |-> IF files[id].convertedName # Null
                          THEN files[id].convertedName
                          ELSE files[id].originalName]
  /\ UNCHANGED <<jobs, files, jobCurrentId, fileCurrentId, activeJobs,
                 timers, running, up, pj, cn, cancels, accepted, outcome,
                 completedAtWrites, pdfJobs, currentId, pdfDataStore,
                 convTimers, processCalls, faults, toolFailed, converted,
                 outputs, conversionState, conversionProgress, pollCount,
                 completed, clientJobId, clientFiles, cpc, lastPoll,
                 cancelledRun, selectedFiles, lastProgress>>

\* the client has the response (use-pdf-conversion.ts 157, 198, 288)
ClientReceives ==
  /\ resp # NoResponse
  /\ resp' = NoResponse
  /\ UNCHANGED <<jobs, files, jobCurrentId, fileCurrentId, activeJobs,
                 timers, running, up, pj, cn, cancels, accepted, outcome,
                 completedAtWrites, pdfJobs, currentId, pdfDataStore,
                 convTimers, processCalls, faults, toolFailed, converted,
                 outputs, conversionState, conversionProgress, pollCount,
                 completed, clientJobId, clientFiles, cpc, lastPoll,
                 cancelledRun, selectedFiles, lastProgress>>

NextApi ==
  \/ resp = NoResponse /\ Next
  \/ \E req \in UploadRequests : UploadRequest(req)
  \/ \E id \in 1..jobCurrentId : StatusRequest(id)
  \/ \E id \in 1..jobCurrentId : ResultsRequest(id)
  \/ \E id \in 1..fileCurrentId : DownloadRequest(id)
  \/ ClientReceives

SpecApi == Init /\ [][NextApi]_vars

\* ============================================================ the client
\* use-pdf-conversion.ts: the hook of the page.  convertFiles (119-322) is
\* one async routine: upload, poll the status once a second, fetch the
\* results.  SpecClient runs it against the server of Spec; the server
\* gets its one upload from the routine.  cancelConversion (339-360) is a
\* handler of its own and talks to no route.

RECURSIVE SumSeq(_)
SumSeq(ps) == IF ps = <<>> THEN 0 ELSE ps[1] + SumSeq(Tail(ps))

\* 255-262: Math.floor(files.reduce(sum + (percentage || 0), 0) / files.length)
FloorMean(ps) == SumSeq(ps) \div Len(ps)

\* 119-143: mutate() is called with n files selected.  With none the
\* routine throws at once and its catch (318-322) sets failed; else it sets
\* uploading and sends the upload.
ConvertFiles(n) ==
  /\ cpc = "none"
  /\ clientFiles' = n
  /\ IF n = 0
     THEN /\ conversionState' = "failed"
          /\ cpc' = "ended"
     ELSE /\ conversionState' = "uploading"
          /\ cpc' = "upload"
  /\ UNCHANGED <<jobs, files, jobCurrentId, fileCurrentId, activeJobs,
                 timers, running, up, pj, cn, cancels, accepted, outcome,
                 completedAtWrites, resp, pdfJobs, currentId, pdfDataStore,
                 convTimers, processCalls, faults, toolFailed, converted,
                 outputs, conversionProgress, pollCount, completed,
                 clientJobId, lastPoll, cancelledRun, selectedFiles,
                 lastProgress>>

\* 143-155: the upload is refused (multer or the handler answers 4xx/5xx, no
\* Job is created): the routine throws, its catch sets failed.
ClientUploadRefused ==
  /\ cpc = "upload"
  /\ jobs = <<>>
  /\ conversionState' = "failed"
  /\ cpc' = "ended"
  /\ UNCHANGED <<jobs, files, jobCurrentId, fileCurrentId, activeJobs,
                 timers, running, up, pj, cn, cancels, accepted, outcome,
                 completedAtWrites, resp, pdfJobs, currentId, pdfDataStore,
                 convTimers, processCalls, faults, toolFailed, converted,
                 outputs, conversionProgress, pollCount, completed,
                 clientJobId, clientFiles, lastPoll, cancelledRun,
                 selectedFiles, lastProgress>>

\* 157-181: the upload response is there; jobId is read, the state is set
\* processing, the polling variables are initialised.
ClientUploadResponse(j) ==
  /\ cpc = "upload"
  /\ up[j].pc = "done"
  /\ clientJobId' = j
  /\ conversionState' = "processing"
  /\ completed' = FALSE
  /\ pollCount' = 0
  /\ cpc' = "poll"
  /\ UNCHANGED <<jobs, files, jobCurrentId, fileCurrentId, activeJobs,
                 timers, running, up, pj, cn, cancels, accepted, outcome,
                 completedAtWrites, resp, pdfJobs, currentId, pdfDataStore,
                 convTimers, processCalls, faults, toolFailed, converted,
                 outputs, conversionProgress, clientFiles, lastPoll,
                 cancelledRun, selectedFiles, lastProgress>>

\* 186-192: the loop condition holds, the 1 s timer has fired and the status
\* request is answered by the server.
ClientPoll ==
  /\ cpc = "poll"
  /\ ~completed
  /\ pollCount < MaxPolls
  /\ StatusRequest(clientJobId)

\* what the routine does when the loop is left (281-285) or goes on
AfterPoll(done, count) ==
  IF done THEN "results"
  ELSE IF count >= MaxPolls THEN "timeout"
  ELSE "poll"

\* 190-285: the status response is handled: pollCount counts the poll; when
\* the response lists Files (210), the overall percentage is set to the
\* floored mean of their percentages and completed is computed; then the
\* loop goes on, is left for the results, or is left with the timeout error,
\* which the catch turns into failed.
ClientStatusResponse ==
  /\ cpc = "poll"
  /\ resp.route = "status"
  /\ LET some == resp.files # <<>>
         ps == [k \in DOMAIN resp.files |-> resp.files[k].percentage]
         done == /\ some
                 /\ \/ resp.status = "completed"
                    \/ resp.status = "failed"
                    \/ \A k \in DOMAIN resp.files :
                         resp.files[k].status \in {"completed", "failed"}
         next == AfterPoll(done, pollCount + 1)
     IN  /\ pollCount' = pollCount + 1
         /\ conversionProgress' = IF some THEN FloorMean(ps)
                                  ELSE conversionProgress
         /\ lastPoll' = IF some THEN ps ELSE lastPoll
         /\ completed' = done
         /\ cpc' = IF next = "timeout" THEN "ended" ELSE next
         /\ conversionState' = IF next = "timeout" THEN "failed"
                               ELSE conversionState
  /\ resp' = NoResponse
  /\ UNCHANGED <<jobs, files, jobCurrentId, fileCurrentId, activeJobs,
                 timers, running, up, pj, cn, cancels, accepted, outcome,
                 completedAtWrites, pdfJobs, currentId, pdfDataStore,
                 convTimers, processCalls, faults, toolFailed, converted,
                 outputs, clientJobId, clientFiles, cancelledRun,
                 selectedFiles, lastProgress>>

\* A faulty ClientPollError, for C37: the error leaves the loop and the
\* catch of the routine sets failed.
ClientPollErrorLeavesLoop ==
  /\ cpc = "poll"
  /\ resp = NoResponse
  /\ ~completed
  /\ pollCount < MaxPolls
  /\ pollCount' = pollCount + 1
  /\ cpc' = "ended"
  /\ conversionState' = "failed"
  /\ UNCHANGED <<jobs, files, jobCurrentId, fileCurrentId, activeJobs,
                 timers, running, up, pj, cn, cancels, accepted, outcome,
                 completedAtWrites, resp, pdfJobs, currentId, pdfDataStore,
                 convTimers, processCalls, faults, toolFailed, converted,
                 outputs, conversionProgress, completed, clientJobId,
                 clientFiles, lastPoll, cancelledRun, selectedFiles,
                 lastProgress>>

\* 190-205 and 277-280: the status request fails or is answered with an
\* error status; the poll is counted and the loop goes on, or is left with
\* the timeout error.
ClientPollError ==
  /\ cpc = "poll"
  /\ resp = NoResponse
  /\ ~completed
  /\ pollCount < MaxPolls
  /\ pollCount' = pollCount + 1
  /\ LET next == AfterPoll(FALSE, pollCount + 1)
     IN  /\ cpc' = IF next = "timeout" THEN "ended" ELSE next
         /\ conversionState' = IF next = "timeout" THEN "failed"
                               ELSE conversionState
  /\ UNCHANGED <<jobs, files, jobCurrentId, fileCurrentId, activeJobs,
                 timers, running, up, pj, cn, cancels, accepted, outcome,
                 completedAtWrites, resp, pdfJobs, currentId, pdfDataStore,
                 convTimers, processCalls, faults, toolFailed, converted,
                 outputs, conversionProgress, completed, clientJobId,
                 clientFiles, lastPoll, cancelledRun, selectedFiles,
                 lastProgress>>

\* 288: the results request is answered by the server.
ClientResults ==
  /\ cpc = "results"
  /\ ResultsRequest(clientJobId)

\* 290-322: the results are there: completed and 100, or, when the request
\* was refused, the error the catch turns into failed.
ClientResultsResponse ==
  /\ cpc = "results"
  /\ resp.route = "results"
  /\ IF resp.code = 200
     THEN /\ conversionState' = "completed"
          /\ conversionProgress' = 100
     ELSE /\ conversionState' = "failed"
          /\ UNCHANGED conversionProgress
  /\ cpc' = "ended"
  /\ resp' = NoResponse
  /\ UNCHANGED <<jobs, files, jobCurrentId, fileCurrentId, activeJobs,
                 timers, running, up, pj, cn, cancels, accepted, outcome,
                 completedAtWrites, pdfJobs, currentId, pdfDataStore,
                 convTimers, processCalls, faults, toolFailed, converted,
                 outputs, pollCount, completed, clientJobId, clientFiles,
                 lastPoll, cancelledRun, selectedFiles, lastProgress>>

\* 339-347: cancelConversion while uploading or processing resets the state
\* of the hook.
CancelConversion ==
  /\ conversionState \in {"processing", "uploading"}
  /\ conversionState' = "idle"
  /\ conversionProgress' = 0
  /\ cancelledRun' = TRUE
  /\ UNCHANGED <<jobs, files, jobCurrentId, fileCurrentId, activeJobs,
                 timers, running, up, pj, cn, cancels, accepted, outcome,
                 completedAtWrites, resp, pdfJobs, currentId, pdfDataStore,
                 convTimers, processCalls, faults, toolFailed, converted,
                 outputs, pollCount, completed, clientJobId, clientFiles,
                 cpc, lastPoll, selectedFiles, lastProgress>>

\* the steps of the server that follow an upload
ServerSteps ==
  \/ \E j \in DOMAIN jobs : UploadCreateFile(j)
  \/ \E j \in DOMAIN jobs : UploadFinish(j)
  \/ \E j \in DOMAIN jobs : ProcessJobNextFile(j)
  \/ \E j \in DOMAIN jobs : ProcessJobGetJob(j)
  \/ \E j \in DOMAIN jobs : ProgressCallbackStore(j)
  \/ \E j \in DOMAIN jobs : ProgressCallbackTrack(j)
  \/ \E j \in DOMAIN jobs : ProcessFileThrow(j)
  \/ \E j \in DOMAIN jobs : ProcessJobFileCompleted(j)
  \/ \E j \in DOMAIN jobs : ProcessJobReadFiles(j)
  \/ \E j \in DOMAIN jobs : ProcessJobRollup(j)
  \/ \E j \in DOMAIN jobs : ProcessJobScheduleCleanup(j)
  \/ \E j \in DOMAIN jobs : ActiveJobsTimer(j)
  \/ \E j \in DOMAIN jobs : CancelGetJob(j)
  \/ \E j \in DOMAIN jobs : CancelCheck(j)
  \/ \E j \in DOMAIN jobs : CancelListFiles(j)
  \/ \E j \in DOMAIN jobs : CancelFailFile(j)
  \/ \E j \in DOMAIN jobs : CancelFinish(j)

NextClient ==
  \/ \E n \in 0..MaxFiles : ConvertFiles(n)
  \/ cpc = "upload" /\ \E o \in OptionSets : UploadCreateJob(clientFiles, o)
  \/ resp = NoResponse /\ ServerSteps
  \/ ClientUploadRefused
  \/ \E j \in DOMAIN jobs : ClientUploadResponse(j)
  \/ ClientPoll
  \/ ClientStatusResponse
  \/ ClientPollError
  \/ ClientResults
  \/ ClientResultsResponse
  \/ CancelConversion

SpecClient == Init /\ [][NextClient]_vars

\* The routine's own steps once it polls: the 1 s timer fires, the request
\* is answered or fails, the response is handled.  Every await of the
\* routine settles, so it is not held for ever at one of them.
ClientStep ==
  \/ ClientPoll
  \/ ClientStatusResponse
  \/ ClientPollError
  \/ ClientResults
  \/ ClientResultsResponse

SpecClientLive == SpecClient /\ WF_vars(ClientStep)

\* ---------------------------------------------- client, the selected files
\* use-pdf-conversion.ts 41 and 52-84: the list of selected files, each file
\* standing as its name.  The Dropzone (424-463) hands every file of a drop
\* or of a file dialog to addFiles as it came.
SelectNames == {"a.pdf", "b.pdf", "c.pdf"}

\* the files of one drop: up to MaxDrop names, in any order, a name more
\* than once when the files come from different folders
Drops == UNION { [1..n -> SelectNames] : n \in 1..MaxDrop }

\* 52-76: the new files whose name no selected file has are appended; with
\* none of them the list is left as it is.
AddFiles(newFiles) ==
  LET Fresh(newFile) ==
        ~ \E k \in DOMAIN selectedFiles : selectedFiles[k] = newFile
      uniqueNewFiles == SelectSeq(newFiles, Fresh)
  IN  /\ Len(selectedFiles) + Len(uniqueNewFiles) <= MaxSelected
      /\ selectedFiles' = IF uniqueNewFiles = <<>> THEN selectedFiles
                          ELSE selectedFiles \o uniqueNewFiles
  /\ UNCHANGED <<jobs, files, jobCurrentId, fileCurrentId, activeJobs,
                 timers, running, up, pj, cn, cancels, accepted, outcome,
                 completedAtWrites, resp, pdfJobs, currentId, pdfDataStore,
                 convTimers, processCalls, faults, toolFailed, converted,
                 outputs, conversionState, conversionProgress, pollCount,
                 completed, clientJobId, clientFiles, cpc, lastPoll,
                 cancelledRun, lastProgress>>

\* 78-80: prevFiles.filter((_, i) => i !== index), index counted from 1 here
RemoveFile(index) ==
  /\ index \in DOMAIN selectedFiles
  /\ selectedFiles' = SubSeq(selectedFiles, 1, index - 1)
                        \o SubSeq(selectedFiles, index + 1, Len(selectedFiles))
  /\ UNCHANGED <<jobs, files, jobCurrentId, fileCurrentId, activeJobs,
                 timers, running, up, pj, cn, cancels, accepted, outcome,
                 completedAtWrites, resp, pdfJobs, currentId, pdfDataStore,
                 convTimers, processCalls, faults, toolFailed, converted,
                 outputs, conversionState, conversionProgress, pollCount,
                 completed, clientJobId, clientFiles, cpc, lastPoll,
                 cancelledRun, lastProgress>>

\* 82-84
ClearFiles ==
  /\ selectedFiles # <<>>
  /\ selectedFiles' = <<>>
  /\ UNCHANGED <<jobs, files, jobCurrentId, fileCurrentId, activeJobs,
                 timers, running, up, pj, cn, cancels, accepted, outcome,
                 completedAtWrites, resp, pdfJobs, currentId, pdfDataStore,
                 convTimers, processCalls, faults, toolFailed, converted,
                 outputs, conversionState, conversionProgress, pollCount,
                 completed, clientJobId, clientFiles, cpc, lastPoll,
                 cancelledRun, lastProgress>>

NextFiles ==
  \/ \E newFiles \in Drops : AddFiles(newFiles)
  \/ \E index \in 1..MaxSelected : RemoveFile(index)
  \/ ClearFiles

SpecFiles == Init /\ [][NextFiles]_vars

\* ================================================= single-document API
\* routes.ts 365-545 with storage.ts: one job per document, converted by a
\* timer.  api/index.ts 10-71 is the same API over an array.  Each handler
\* awaits MemStorage calls only and is one action.

\* options of a process request (routes.ts 766-769)
ProcessOptionSets ==
  { [applyOcr |-> TRUE, formatType |-> "pdf_a_2u"], InvalidOptions }

\* storage.ts 32-39
UpdatePdfJobStatus(id, status) ==
  [pdfJobs EXCEPT ![id] = [status |-> status] @@ @]

\* storage.ts 41-48
UpdatePdfJobOutput(id, outputUrl) ==
  [pdfJobs EXCEPT ![id] = [outputUrl |-> outputUrl, status |-> "completed"] @@ @]

\* routes.ts 382-403 and storage.ts 20-26: POST /api/pdf/convert with a valid
\* body
ConvertRequest ==
  /\ resp = NoResponse
  /\ currentId <= MaxDocs
  /\ pdfJobs' = Append(pdfJobs,
                  [id |-> currentId, originalName |-> "name.pdf",
                   status |-> "pending", inputUrl |-> "local",
                   createdAt |-> Now, outputUrl |-> Null,
                   errorMessage |-> Null])
  /\ currentId' = currentId + 1
  /\ convTimers' = Append(convTimers, 0)
  /\ resp' = [route |-> "convert", id |-> currentId, code |-> 201]
  /\ UNCHANGED <<jobs, files, jobCurrentId, fileCurrentId, activeJobs,
                 timers, running, up, pj, cn, cancels, accepted, outcome,
                 completedAtWrites, pdfDataStore, processCalls, faults,
                 toolFailed, converted, outputs, conversionState,
                 conversionProgress, pollCount, completed, clientJobId,
                 clientFiles, cpc, lastPoll, cancelledRun, selectedFiles,
                 lastProgress>>

\* A faulty ProcessRequest, for C38: options that fail validation are
\* replaced by the defaults and the job is processed.
ProcessRequestDefaultsOptions(id, options) ==
  /\ resp = NoResponse
  /\ processCalls < MaxProcessCalls
  /\ processCalls' = processCalls + 1
  /\ IF id \notin DOMAIN pdfJobs
     THEN /\ resp' = [route |-> "process", id |-> id, code |-> 404,
                      error |-> "PDF job not found"]
          /\ UNCHANGED <<pdfJobs, convTimers>>
     ELSE /\ pdfJobs' = UpdatePdfJobStatus(id, "processing")
          /\ convTimers' = [convTimers EXCEPT ![id] = @ + 1]
          /\ resp' = [route |-> "process", id |-> id, code |-> 200]
  /\ UNCHANGED <<jobs, files, jobCurrentId, fileCurrentId, activeJobs,
                 timers, running, up, pj, cn, cancels, accepted, outcome,
                 completedAtWrites, currentId, pdfDataStore, faults,
                 toolFailed, converted, outputs, conversionState,
                 conversionProgress, pollCount, completed, clientJobId,
                 clientFiles, cpc, lastPoll, cancelledRun, selectedFiles,
                 lastProgress>>

\* routes.ts 426-471: POST /api/pdf/jobs/:id/process.  The options are
\* validated, the job is looked up, written processing whatever its status,
\* and a 5 s timer is set.
ProcessRequest(id, options) ==
  /\ resp = NoResponse
  /\ processCalls < MaxProcessCalls
  /\ processCalls' = processCalls + 1
  /\ IF options = InvalidOptions
     THEN /\ resp' = [route |-> "process", id |-> id, code |-> 400,
                      error |-> "Invalid conversion options"]
          /\ UNCHANGED <<pdfJobs, convTimers>>
     ELSE IF id \notin DOMAIN pdfJobs
     THEN /\ resp' = [route |-> "process", id |-> id, code |-> 404,
                      error |-> "PDF job not found"]
          /\ UNCHANGED <<pdfJobs, convTimers>>
     ELSE /\ pdfJobs' = UpdatePdfJobStatus(id, "processing")
          /\ convTimers' = [convTimers EXCEPT ![id] = @ + 1]
          /\ resp' = [route |-> "process", id |-> id, code |-> 200]
  /\ UNCHANGED <<jobs, files, jobCurrentId, fileCurrentId, activeJobs,
                 timers, running, up, pj, cn, cancels, accepted, outcome,
                 completedAtWrites, currentId, pdfDataStore, faults,
                 toolFailed, converted, outputs, conversionState,
                 conversionProgress, pollCount, completed, clientJobId,
                 clientFiles, cpc, lastPoll, cancelledRun, selectedFiles,
                 lastProgress>>

\* A faulty ConversionTimer, for C33: the job is written completed and the
\* data is not stored.
ConversionTimerNoData(id) ==
  /\ resp = NoResponse
  /\ convTimers[id] > 0
  /\ convTimers' = [convTimers EXCEPT ![id] = @ - 1]
  /\ pdfDataStore' = pdfDataStore
  /\ pdfJobs' = UpdatePdfJobOutput(id, "/api/pdf/downloads/id")
  /\ UNCHANGED <<jobs, files, jobCurrentId, fileCurrentId, activeJobs,
                 timers, running, up, pj, cn, cancels, accepted, outcome,
                 completedAtWrites, resp, currentId, processCalls, faults,
                 toolFailed, converted, outputs, conversionState,
                 conversionProgress, pollCount, completed, clientJobId,
                 clientFiles, cpc, lastPoll, cancelledRun, selectedFiles,
                 lastProgress>>

\* routes.ts 447-460: the timer fires; createSamplePdf returns a constant
\* buffer, the data is stored and the job is written completed.
ConversionTimer(id) ==
  /\ resp = NoResponse
  /\ convTimers[id] > 0
  /\ convTimers' = [convTimers EXCEPT ![id] = @ - 1]
  /\ pdfDataStore' = pdfDataStore \cup {id}
  /\ pdfJobs' = UpdatePdfJobOutput(id, "/api/pdf/downloads/id")
  /\ UNCHANGED <<jobs, files, jobCurrentId, fileCurrentId, activeJobs,
                 timers, running, up, pj, cn, cancels, accepted, outcome,
                 completedAtWrites, resp, currentId, processCalls, faults,
                 toolFailed, converted, outputs, conversionState,
                 conversionProgress, pollCount, completed, clientJobId,
                 clientFiles, cpc, lastPoll, cancelledRun, selectedFiles,
                 lastProgress>>

NextSingle ==
  \/ ConvertRequest
  \/ \E id \in 1..currentId, o \in ProcessOptionSets : ProcessRequest(id, o)
  \/ \E id \in DOMAIN pdfJobs : ConversionTimer(id)
  \/ ClientReceives

SpecSingle == Init /\ [][NextSingle]_vars

\* ------------------------------------------- single-document API, reads
\* SpecSingleApi adds the progress and download routes and the process
\* requests as they arrive, with the :id of the path still a string.

\* the :id of a request path: its leading decimal digits and what follows
IdParams ==
  { [digits |-> <<1>>, rest |-> ""], [digits |-> <<2>>, rest |-> ""],
    [digits |-> <<9>>, rest |-> ""], [digits |-> <<>>, rest |-> "abc"],
    [digits |-> <<1>>, rest |-> "x"] }

NaN == [nan |-> TRUE]

RECURSIVE DigitsValue(_)
DigitsValue(ds) ==
  IF ds = <<>> THEN 0
  ELSE 10 * DigitsValue(SubSeq(ds, 1, Len(ds) - 1)) + ds[Len(ds)]

\* parseInt(req.params.id, 10): the value of the leading digits, NaN when
\* there are none
ParseInt(param) ==
  IF param.digits = <<>> THEN NaN
  ELSE [nan |-> FALSE, value |-> DigitsValue(param.digits)]

\* routes.ts 426-443: the process request as it arrives; isNaN(id) is
\* answered 400 before anything else is looked at.
ProcessRequestParam(param, options) ==
  IF ParseInt(param).nan
  THEN /\ resp = NoResponse
       /\ processCalls < MaxProcessCalls
       /\ processCalls' = processCalls + 1
       /\ resp' = [route |-> "process", id |-> 0, code |-> 400,
                   error |-> "Invalid job ID"]
       /\ UNCHANGED <<jobs, files, jobCurrentId, fileCurrentId, activeJobs,
                      timers, running, up, pj, cn, cancels, accepted, outcome,
                      completedAtWrites, pdfJobs, currentId, pdfDataStore,
                      convTimers, faults, toolFailed, converted, outputs,
                      conversionState, conversionProgress, pollCount,
                      completed, clientJobId, clientFiles, cpc, lastPoll,
                      cancelledRun, selectedFiles, lastProgress>>
  ELSE ProcessRequest(ParseInt(param).value, options)

\* Math.floor(Math.random() * 90): some of the values 0..89
RandomDraws == {0, 19, 49, 85, 89}

\* A faulty JobProgress, for C34: the percentage of a processing job is not
\* capped.
JobProgressUncapped(status, draw) ==
  CASE status = "pending"    -> 0
    [] status = "processing" -> draw + 10
    [] status = "completed"  -> 100
    [] status = "failed"     -> 0
    [] OTHER                 -> 0

\* routes.ts 486-516, api/index.ts 83-112: the percentage for a status
JobProgress(status, draw) ==
  CASE status = "pending"    -> 0
    [] status = "processing" -> IF draw + 10 < 95 THEN draw + 10 ELSE 95
    [] status = "completed"  -> 100
    [] status = "failed"     -> 0
    [] OTHER                 -> 0

\* routes.ts 474-523: GET /api/pdf/jobs/:id/progress.  lastProgress keeps,
\* for a processing job, the answer and the counts of process requests and
\* of pending timers it was given at.
ProgressRequest(id, draw) ==
  /\ resp = NoResponse
  /\ IF id \notin DOMAIN pdfJobs
     THEN /\ resp' = [route |-> "progress", id |-> id, code |-> 404,
                      error |-> "PDF job not found"]
          /\ UNCHANGED lastProgress
     ELSE /\ resp' = [route |-> "progress", id |-> id, code |-> 200,
                      jobId |-> pdfJobs[id].id, status |-> pdfJobs[id].status,
                      progress |-> JobProgress(pdfJobs[id].status, draw),
                      outputUrl |-> pdfJobs[id].outputUrl,
                      errorMessage |-> pdfJobs[id].errorMessage]
          /\ lastProgress' =
               IF pdfJobs[id].status = "processing"
               THEN (id :> [progress |-> JobProgress("processing", draw),
                            calls |-> processCalls,
                            timers |-> convTimers[id]]) @@ lastProgress
               ELSE lastProgress
  /\ UNCHANGED <<jobs, files, jobCurrentId, fileCurrentId, activeJobs,
                 timers, running, up, pj, cn, cancels, accepted, outcome,
                 completedAtWrites, pdfJobs, currentId, pdfDataStore,
                 convTimers, processCalls, faults, toolFailed, converted,
                 outputs, conversionState, conversionProgress, pollCount,
                 completed, clientJobId, clientFiles, cpc, lastPoll,
                 cancelledRun, selectedFiles>>

\* routes.ts 526-556: GET /api/pdf/downloads/:id
DownloadsRequest(id) ==
  /\ resp = NoResponse
  /\ resp' =
       IF id \notin DOMAIN pdfJobs
       THEN [route |-> "downloads", id |-> id, code |-> 404,
             error |-> "PDF job not found"]
       ELSE IF pdfJobs[id].status # "completed"
       THEN [route |-> "downloads", id |-> id, code |-> 400,
             error |-> "PDF conversion not yet completed"]
       ELSE IF id \notin pdfDataStore
       THEN [route |-> "downloads", id |-> id, code |-> 404,
             error |-> "PDF file not found"]
       ELSE [route |-> "downloads", id |-> id, code |-> 200]
  /\ UNCHANGED <<jobs, files, jobCurrentId, fileCurrentId, activeJobs,
                 timers, running, up, pj, cn, cancels, accepted, outcome,
                 completedAtWrites, pdfJobs, currentId, pdfDataStore,
                 convTimers, processCalls, faults, toolFailed, converted,
                 outputs, conversionState, conversionProgress, pollCount,
                 completed, clientJobId, clientFiles, cpc, lastPoll,
                 cancelledRun, selectedFiles, lastProgress>>

NextSingleApi ==
  \/ NextSingle
  \/ \E param \in IdParams, o \in ProcessOptionSets :
       ProcessRequestParam(param, o)
  \/ \E id \in 1..currentId, draw \in RandomDraws : ProgressRequest(id, draw)
  \/ \E id \in 1..currentId : DownloadsRequest(id)

SpecSingleApi == Init /\ [][NextSingleApi]_vars

\* ------------------------------------------------------------ both stores
\* SpecIds runs the two Stores side by side: the uploads of SpecTwo and the
\* creations of the single-document API.
NextIds ==
  \/ resp = NoResponse /\ NextTwo
  \/ running = NoHandler /\ ConvertRequest
  \/ ClientReceives

SpecIds == Init /\ [][NextIds]_vars

\* ================================================================ claims
FilesOf(j) == {f \in DOMAIN files : files[f].jobId = j}

\* the orchestrator is past the rollup of Job j
RolledUp(j) == pj[j].pc \in {"schedule", "done"}

\* a cancel was accepted for Job j, and both the cancel handler and the
\* orchestrator have finished
Settled(j) ==
  /\ accepted[j] # <<>>
  /\ cn[j].pc = "idle"
  /\ pj[j].pc = "done"

\* C1: once processJob has handled the last File of a Job and rolled the Job
\* up, the Job is failed if and only if at least one of its Files is failed,
\* and completed otherwise.
C1_Rollup ==
  \A j \in DOMAIN jobs :
    RolledUp(j) =>
      IF \E f \in FilesOf(j) : files[f].status = "failed"
      THEN jobs[j].status = "failed"
      ELSE jobs[j].status = "completed"

\* C2: in every reachable state a Job that is completed or failed has every
\* one of its Files completed or failed.
C2_TerminalJobHasTerminalFiles ==
  \A j \in DOMAIN jobs :
    jobs[j].status \in Terminal =>
      \A f \in FilesOf(j) : files[f].status \in Terminal

\* C3: after a cancel was accepted for a Job, once the cancel handler and the
\* orchestrator are done, the Job is failed and every File that was pending
\* or processing at the acceptance is failed with the cancellation error.
C3_CancelIsFinal ==
  \A j \in DOMAIN jobs :
    Settled(j) =>
      /\ jobs[j].status = "failed"
      /\ \A f \in DOMAIN accepted[j] :
           accepted[j][f] \in {"pending", "processing"} =>
             /\ files[f].status = "failed"
             /\ files[f].error = CancelError

\* C4: a File that was still pending when a cancel of its Job was accepted is
\* never started: it is never processing, no percentage is reported for it
\* and the Converter call for it never ends.
C4_NoFileStartedAfterCancel ==
  \A j \in DOMAIN jobs :
    \A f \in DOMAIN accepted[j] :
      accepted[j][f] = "pending" =>
        /\ files[f].status # "processing"
        /\ files[f].progress = 0
        /\ outcome[f] = "none"

\* C5: once a Job is completed or failed, no step changes its status.
C5_TerminalJobIsFinal ==
  [][\A j \in DOMAIN jobs :
       jobs[j].status \in Terminal => jobs'[j].status = jobs[j].status]_vars

\* C6: once a File is completed or failed, no step of the orchestrator or of
\* a cancel request changes its status.
C6_TerminalFileIsFinal ==
  [][\A f \in DOMAIN files :
       files[f].status \in Terminal => files'[f].status = files[f].status]_vars

\* C7: in every reachable state a failed File has a non-empty error and a
\* completed File has no error.
C7_ErrorMatchesStatus ==
  \A f \in DOMAIN files :
    /\ files[f].status = "failed" => files[f].error \notin {Null, ""}
    /\ files[f].status = "completed" => files[f].error = Null

HasSuccessField(file) ==
  \/ file.convertedName # Null
  \/ file.convertedSize # Null
  \/ file.downloadUrl # Null

\* C8: in every reachable state no File has an error together with a success
\* field (convertedName, convertedSize, downloadUrl), and a File that was
\* pending or processing when a cancel of its Job was accepted gets no
\* success field: a Converter result that arrives afterwards is discarded.
C8_ErrorExcludesSuccessFields ==
  /\ \A f \in DOMAIN files :
       ~(files[f].error # Null /\ HasSuccessField(files[f]))
  /\ \A j \in DOMAIN jobs :
       \A f \in DOMAIN accepted[j] :
         accepted[j][f] \in {"pending", "processing"} =>
           ~HasSuccessField(files[f])

\* C9: for every Job completedAt is set if and only if the Job is completed
\* or failed, and completedAt is written at most once.
C9_CompletedAt ==
  \A j \in DOMAIN jobs :
    /\ jobs[j].completedAt # Null <=> jobs[j].status \in Terminal
    /\ completedAtWrites[j] <= 1

\* C10: a Converter failure for one File does not stop the batch.  Every File
\* before the orchestrator's position has been through the Converter,
\* whichever sibling threw; a File whose Converter call threw is failed; and
\* a File is completed exactly when its Converter call returned.
C10_PartialFailureIsolation ==
  \A j \in DOMAIN jobs :
    \A k \in DOMAIN pj[j].files :
      LET f == pj[j].files[k] IN
        /\ k < pj[j].idx => outcome[f] # "none"
        /\ outcome[f] = "threw" => files[f].status = "failed"
        /\ files[f].status = "completed" <=> outcome[f] = "returned"

\* C10 witness: a Job is rolled up, the Converter threw for one of its Files
\* and a later File of the same Job is completed.
C10_Witness ==
  \E j \in DOMAIN jobs :
    /\ RolledUp(j)
    /\ \E k1, k2 \in DOMAIN pj[j].files :
         /\ k1 < k2
         /\ outcome[pj[j].files[k1]] = "threw"
         /\ files[pj[j].files[k1]].status = "failed"
         /\ files[pj[j].files[k2]].status = "completed"

\* a File of a Job has entered processing: it is processing, or a percentage
\* was reported for it, or its Converter call has ended
Started(f) ==
  \/ files[f].status = "processing"
  \/ files[f].progress > 0
  \/ outcome[f] # "none"

\* C11: within one Job the Files are processed one at a time in creation
\* order: at most one File of the Job is processing, and a File has not
\* entered processing while a File created before it is not yet completed or
\* failed.
C11_SequentialProcessing ==
  \A j \in DOMAIN jobs :
    /\ Cardinality({f \in FilesOf(j) : files[f].status = "processing"}) <= 1
    /\ \A f, g \in FilesOf(j) :
         (f < g /\ Started(g)) => files[f].status \in Terminal

\* C11 witness: the second File of a Job is processing and the first one is
\* completed or failed.
C11_Witness ==
  \E j \in DOMAIN jobs :
    \E f, g \in FilesOf(j) :
      /\ f < g
      /\ files[g].status = "processing"
      /\ files[f].status \in Terminal

\* a state between two macrotasks: no handler has a continuation queued, so
\* the next request, a status poll for one, is served from this state
Observable == running = NoHandler

\* C12: in every state a poller can observe, a File's progress is 100 if and
\* only if the File is completed.
C12_FullProgressIffCompleted ==
  Observable =>
    \A f \in DOMAIN files :
      files[f].progress = 100 <=> files[f].status = "completed"

\* C12 witness: a poller can observe a completed File at 100 next to a File
\* that failed at 90; and the state before it, which no poller can observe,
\* is the one where the 100 is stored and the File is still processing.
C12_Witness ==
  /\ Observable
  /\ \E f, g \in DOMAIN files :
       /\ files[f].status = "completed" /\ files[f].progress = 100
       /\ files[g].status = "failed" /\ files[g].progress = 90

\* C13: no step lowers the progress stored for a File that is not completed
\* or failed, nor the percentage the status route returns for it; so it
\* does not decrease from one poll to the next.
C13_ProgressMonotonic ==
  [][\A f \in DOMAIN files :
       files[f].status \notin Terminal =>
         /\ files'[f].progress >= files[f].progress
         /\ Percentage(files'[f]) >= Percentage(files[f])]_vars

\* C13 witness: a poller can observe a File in processing at 70, after four
\* reports.
C13_Witness ==
  /\ Observable
  /\ \E f \in DOMAIN files :
       files[f].status = "processing" /\ files[f].progress = 70

\* C15: an accepted upload of N files creates one Job and N Files of that
\* Job: one Job per upload; while the handler creates the records every File
\* of the Job is pending with progress 0; and from the response on the Job
\* has exactly the N Files the handler created.
C15_UploadCreatesRecords ==
  /\ Len(jobs) = Len(up)
  /\ jobCurrentId = Len(jobs) + 1
  /\ \A j \in DOMAIN jobs :
       /\ Cardinality(FilesOf(j)) = Len(up[j].jobFiles)
       /\ FilesOf(j) = {up[j].jobFiles[k] : k \in DOMAIN up[j].jobFiles}
       /\ up[j].n >= 1
       /\ up[j].pc = "done" => Cardinality(FilesOf(j)) = up[j].n
       /\ running = <<"upload", j>> =>
            \A f \in FilesOf(j) :
              files[f].status = "pending" /\ files[f].progress = 0

\* C15 witness: the handler of an upload of two files has created both
\* records and is about to start processJob.
C15_Witness ==
  \E j \in DOMAIN jobs :
    /\ running = <<"upload", j>>
    /\ up[j].n = 2
    /\ Cardinality(FilesOf(j)) = 2
    /\ \A f \in FilesOf(j) :
         files[f].status = "pending" /\ files[f].progress = 0

\* the state the server is in when the upload response of Job j has left:
\* processJob waits for the first timer of the first File, and no other
\* request has been served since
AfterUploadResponse(j) ==
  /\ Observable
  /\ up[j].pc = "done"
  /\ pj[j].pc = "report" /\ pj[j].idx = 1 /\ pj[j].tick = 2
  /\ accepted[j] = <<>>

\* C16: the upload response does not wait for processing: a File of the Job
\* is completed or failed only after the response was sent, the records
\* exist when it is sent, and a status poll served right after the response
\* sees every File pending or processing.
C16_UploadDoesNotWait ==
  \A j \in DOMAIN jobs :
    /\ (\E f \in FilesOf(j) : files[f].status \in Terminal) => up[j].pc = "done"
    /\ up[j].pc = "done" => Cardinality(FilesOf(j)) = up[j].n
    /\ AfterUploadResponse(j) =>
         \A f \in FilesOf(j) : files[f].status \in {"pending", "processing"}

\* C16 witness: right after the response of an upload of two files, the
\* first File is processing and the second is pending.
C16_Witness ==
  \E j \in DOMAIN jobs :
    /\ AfterUploadResponse(j)
    /\ \E f, g \in FilesOf(j) :
         files[f].status = "processing" /\ files[g].status = "pending"

\* the uploads C17 lists: no files, a file over 20 MB, a file neither
\* declared application/pdf nor named .pdf, options that fail validation
InvalidUpload(req) ==
  \/ Len(req.files) = 0
  \/ \E i \in DOMAIN req.files : req.files[i].size > 20
  \/ \E i \in DOMAIN req.files :
       req.files[i].mimetype # "application/pdf" /\ ~req.files[i].pdfName
  \/ req.options \notin OptionSets

\* the step answers an upload with an error and creates no Job and no File
UploadRefused ==
  /\ resp'.route = "upload"
  /\ resp'.code >= 400
  /\ UNCHANGED <<jobs, files, jobCurrentId, fileCurrentId, activeJobs,
                 timers, running, up, pj, cn, cancels, accepted, outcome,
                 completedAtWrites, pdfJobs, currentId, pdfDataStore,
                 convTimers, processCalls, faults, toolFailed, converted,
                 outputs, conversionState, conversionProgress, pollCount,
                 completed, clientJobId, clientFiles, cpc, lastPoll,
                 cancelledRun, selectedFiles, lastProgress>>

\* C17: an upload with no files, with a file over 20 MB, with a file that is
\* neither declared application/pdf nor named .pdf, or with invalid options
\* is answered with an error, and the step creates no Job and no File: a
\* step is a refusal, or it is not the step of any such upload.
C17_InvalidUploadRejected ==
  [][\/ UploadRefused
     \/ \A req \in UploadRequests :
          ~(InvalidUpload(req) /\ UploadRequest(req))]_vars

\* C17 witness: an upload was refused for its options while the store holds
\* the records of an accepted one.
C17_Witness ==
  /\ resp.route = "upload"
  /\ resp.code = 400
  /\ resp.error = "Opções de conversão inválidas"
  /\ Len(jobs) = 1
  /\ Len(files) >= 1

\* C18: a results request for a Job that is pending, processing or failed is
\* refused with the not-ready error, and the response carries no file data.
C18_ResultsRefusedUnlessCompleted ==
  (/\ resp.route = "results"
   /\ resp.id \in DOMAIN jobs
   /\ jobs[resp.id].status # "completed") =>
     /\ resp.code = 400
     /\ resp.error = "Conversão ainda não foi concluída"
     /\ "files" \notin DOMAIN resp

\* C18 witness: results were refused for a failed Job whose Files are all
\* completed or failed.
C18_Witness ==
  /\ resp.route = "results"
  /\ resp.code = 400
  /\ resp.id \in DOMAIN jobs
  /\ jobs[resp.id].status = "failed"
  /\ \A f \in FilesOf(resp.id) : files[f].status \in Terminal

\* the entry of the results response for File f is the one of its record:
\* the converted name, size and URL of a completed File, the original name
\* and size and no URL of a failed one
ResultEntryMatches(e, f) ==
  /\ e.id = f
  /\ e.hasPdfA = files[f].isPdfA
  /\ e.hasOcr = files[f].hasOcr
  /\ IF files[f].status = "completed"
     THEN /\ e.name = files[f].convertedName
          /\ e.size = files[f].convertedSize
          /\ e.url = files[f].downloadUrl
     ELSE /\ e.name = files[f].originalName
          /\ e.size = files[f].originalSize
          /\ e.url = ""

\* C19 as the spec states it: once every File of a Job is completed or
\* failed, a results request for the Job succeeds and returns the record of
\* each File.
C19_ResultsOnceFilesTerminal ==
  (/\ resp.route = "results"
   /\ resp.id \in DOMAIN jobs
   /\ \A f \in FilesOf(resp.id) : files[f].status \in Terminal) =>
     /\ resp.code = 200
     /\ Len(resp.files) = Cardinality(FilesOf(resp.id))
     /\ \A k \in DOMAIN resp.files :
          ResultEntryMatches(resp.files[k], resp.files[k].id)

\* a results response for a completed Job: every File of the Job is
\* completed or failed, and the response has one entry per File, in creation
\* order, that matches the File's record
ResultsServed ==
  (/\ resp.route = "results"
   /\ resp.id \in DOMAIN jobs
   /\ jobs[resp.id].status = "completed") =>
     /\ \A f \in FilesOf(resp.id) : files[f].status \in Terminal
     /\ resp.code = 200
     /\ Len(resp.files) = Cardinality(FilesOf(resp.id))
     /\ \A k \in DOMAIN resp.files :
          /\ resp.files[k].id = pj[resp.id].files[k]
          /\ ResultEntryMatches(resp.files[k], resp.files[k].id)

\* C19 amended: once a Job is completed, a results request for the Job
\* succeeds and returns the record of each File; and a completed Job stays
\* completed with the same File records, so a client that stops polling when
\* a status poll shows the Job completed and then requests results gets them.
C19_ResultsOnceJobCompleted ==
  /\ []ResultsServed
  /\ [][\A j \in DOMAIN jobs :
          jobs[j].status = "completed" =>
            /\ jobs'[j].status = "completed"
            /\ \A f \in FilesOf(j) : files'[f] = files[f]]_vars

\* C19 witness: results were served for a completed Job with a completed
\* File and a failed one.
C19_Witness ==
  /\ resp.route = "results"
  /\ resp.code = 200
  /\ \E k1, k2 \in DOMAIN resp.files :
       /\ files[resp.files[k1].id].status = "completed"
       /\ resp.files[k1].url = "/files/name_PDFA2u.pdf"
       /\ files[resp.files[k2].id].status = "failed"
       /\ resp.files[k2].url = ""

\* C20: a download request for a File that is not completed is refused with
\* the not-available error whatever the status of its Job, and one for a
\* completed File is answered with the converted file.
C20_DownloadOnlyCompleted ==
  (resp.route = "download" /\ resp.id \in DOMAIN files) =>
     IF files[resp.id].status = "completed"
     THEN /\ resp.code = 200
          /\ resp.path = "converted"
          /\ resp.filename = files[resp.id].convertedName
     ELSE /\ resp.code = 400
          /\ resp.error = "Arquivo não está disponível para download"
          /\ "path" \notin DOMAIN resp

\* C20 witness: the download of a failed File of a completed Job was
\* refused.
C20_Witness ==
  /\ resp.route = "download"
  /\ resp.code = 400
  /\ resp.id \in DOMAIN files
  /\ files[resp.id].status = "failed"
  /\ jobs[files[resp.id].jobId].status = "completed"

\* C14: a process request for a single-document job that is already
\* processing, completed or failed changes neither the job's status nor the
\* number of completions scheduled for it.
C14_ProcessOnlyOnce ==
  [][\A id \in DOMAIN pdfJobs :
       \A o \in ProcessOptionSets :
         (pdfJobs[id].status # "pending" /\ ProcessRequest(id, o)) =>
            /\ pdfJobs'[id].status = pdfJobs[id].status
            /\ convTimers'[id] = convTimers[id]]_vars

C22_ReadsArePureProjections ==
  [][(\/ \E id \in 1..jobCurrentId : StatusRequest(id) \/ ResultsRequest(id)
      \/ \E id \in 1..fileCurrentId : DownloadRequest(id)) =>
        /\ resp'.route \in {"status", "results", "download"}
        /\ UNCHANGED <<jobs, files, jobCurrentId, fileCurrentId, activeJobs>>]_vars

\* C22 witness: a status request was answered while a File is processing
\* and the tracking entry of its Job exists.
C22_Witness ==
  /\ resp.route = "status"
  /\ resp.code = 200
  /\ resp.id \in DOMAIN activeJobs
  /\ \E k \in DOMAIN resp.files : resp.files[k].status = "processing"

C24_FlagsReflectApplied ==
  \A f \in DOMAIN files :
    files[f].status = "completed" =>
      /\ <<f, "ocr">> \in toolFailed => files[f].hasOcr = FALSE
      /\ <<f, "copied">> \in toolFailed => files[f].isPdfA = FALSE

\* C25: two distinct Files, of one Job or of two, never get the same output
\* path, and the output of a File is never replaced by the output of
\* another File.
C25_OutputPathsDistinct ==
  /\ \A a, b \in DOMAIN converted :
       a # b => converted[a].outputPath # converted[b].outputPath
  /\ \A a \in DOMAIN converted : outputs[converted[a].outputPath] = a

\* C26: no step changes the options or createdAt of a Job that exists, or
\* the jobId, originalName or originalSize of a File that exists, and while
\* processFile runs for a Job the options it was called with are the Job's.
C26_CreationFieldsImmutable ==
  [][/\ \A j \in DOMAIN jobs :
          /\ jobs'[j].options = jobs[j].options
          /\ jobs'[j].createdAt = jobs[j].createdAt
     /\ \A f \in DOMAIN files :
          /\ files'[f].jobId = files[f].jobId
          /\ files'[f].originalName = files[f].originalName
          /\ files'[f].originalSize = files[f].originalSize
     /\ \A j \in DOMAIN pj' :
          pj'[j].pc \in {"report", "track", "result"} =>
            pj'[j].options = jobs'[j].options]_vars

C26_Witness ==
  \E j \in DOMAIN jobs : \E f, g \in DOMAIN files :
    /\ pj[j].pc = "done"
    /\ accepted[j] # <<>>
    /\ jobs[j].options \in OptionSets
    /\ jobs[j].createdAt = Now
    /\ files[f].jobId = j /\ files[g].jobId = j
    /\ files[f].status = "completed" /\ files[f].originalName = "name.pdf"
    /\ files[g].error = CancelError /\ files[g].originalSize = "size0"

\* C27: once processJob has finished for a Job, the Job's entry in
\* activeJobs is eventually gone; and no step, the timer's and the cancel's
\* removal included, takes a Job or a File out of the store.
C27_TrackingReleased ==
  /\ \A j \in 1..MaxJobs :
       (j \in DOMAIN pj /\ pj[j].pc = "done") ~> (j \notin DOMAIN activeJobs)
  /\ [][/\ \A j \in DOMAIN jobs : j \in DOMAIN jobs' /\ jobs'[j].id = j
        /\ \A f \in DOMAIN files : f \in DOMAIN files' /\ files'[f].id = f]_vars

C27_Witness ==
  \E j \in DOMAIN jobs :
    /\ pj[j].pc = "done"
    /\ accepted[j] = <<>>
    /\ j \notin DOMAIN activeJobs
    /\ j \notin timers
    /\ jobs[j].id = j /\ jobs[j].status = "completed"
    /\ Len(GetPdfFilesByJobId(j)) = Len(pj[j].files)
    /\ Len(pj[j].files) > 0

\* C28: in every reachable state every File names an existing Job
\* and every Job has at least one File, the states inside the upload
\* handler included.
C28_EveryJobHasFile ==
  /\ \A f \in DOMAIN files : files[f].jobId \in DOMAIN jobs
  /\ \A j \in DOMAIN jobs : Len(GetPdfFilesByJobId(j)) >= 1

\* a step of the upload handler, the processJob task or the cancel handler
\* of Job j
Acting(j) == up'[j] # up[j] \/ pj'[j] # pj[j] \/ cn'[j] # cn[j]

\* C29: a step that changes the record of a Job or of one of its Files is a
\* step of that Job's own upload, processJob or cancel, and no step is a
\* step of two Jobs: processing, File failure and cancel of one Job leave
\* every other Job and its Files as they were.
C29_JobsIndependent ==
  [][/\ \A b \in DOMAIN jobs :
          (\/ jobs'[b] # jobs[b]
           \/ \E f \in DOMAIN files :
                files[f].jobId = b /\ files'[f] # files[f]) => Acting(b)
     /\ \A a, b \in DOMAIN jobs : Acting(a) /\ Acting(b) => a = b]_vars

C29_Witness ==
  \E a, b \in DOMAIN jobs :
    /\ a # b
    /\ accepted[a] # <<>>
    /\ jobs[a].status = "failed"
    /\ \E f \in DOMAIN files : files[f].jobId = a /\ files[f].error = CancelError
    /\ pj[a].pc = "report" /\ pj[b].pc = "report"
    /\ jobs[b].status = "processing"
    /\ \A f \in DOMAIN files :
         files[f].jobId = b => files[f].status = "processing" /\ files[f].error = Null

\* the ids of the records of a Store, in creation order
Ids(records) == [k \in DOMAIN records |-> records[k].id]

StrictlyIncreasing(ids) ==
  \A k1, k2 \in DOMAIN ids : k1 < k2 => ids[k1] < ids[k2]

\* a create step gave the new record an id above every id given before, and
\* left the ids of the records that were there
FreshIds(before, after) ==
  /\ \A k \in DOMAIN before : after[k] = before[k]
  /\ \A k \in DOMAIN after \ DOMAIN before :
       \A k0 \in DOMAIN before : after[k] > before[k0]

\* C30: Job ids and File ids are unique, Job ids increase in creation
\* order, in the multi-file Store and in the single-document Store, the
\* Store's counter is above every id it gave, and no create step gives an
\* id that was given before.
C30_IdsUniqueAndIncreasing ==
  /\ [](/\ StrictlyIncreasing(Ids(jobs))
        /\ StrictlyIncreasing(Ids(files))
        /\ StrictlyIncreasing(Ids(pdfJobs))
        /\ \A k \in DOMAIN jobs : jobs[k].id < jobCurrentId
        /\ \A k \in DOMAIN files : files[k].id < fileCurrentId
        /\ \A k \in DOMAIN pdfJobs : pdfJobs[k].id < currentId)
  /\ [][/\ FreshIds(Ids(jobs), Ids(jobs'))
        /\ FreshIds(Ids(files), Ids(files'))
        /\ FreshIds(Ids(pdfJobs), Ids(pdfJobs'))]_vars

C30_Witness ==
  /\ Len(jobs) = MaxJobs + 1
  /\ Len(files) = MaxFiles + 1
  /\ Len(pdfJobs) = MaxDocs
  /\ jobs[Len(jobs)].id = Len(jobs)
  /\ files[Len(files)].id = Len(files)
  /\ pdfJobs[Len(pdfJobs)].id = Len(pdfJobs)

\* C31: the overall percentage the client shows for a Job is the floored
\* mean of the File percentages of the latest status poll: it is between 0
\* and 100, and it is 100 only when every File's percentage is 100.
C31_OverallIsFloorMean ==
  (lastPoll # <<>> /\ ~cancelledRun) =>
    /\ conversionProgress = FloorMean(lastPoll)
    /\ conversionProgress \in 0..100
    /\ conversionProgress = 100 => \A k \in DOMAIN lastPoll : lastPoll[k] = 100

\* C32: every Job an upload created eventually has status completed or
\* failed, when every wait of processFile ends (the fairness of SpecLive).
C32_JobsReachTerminal ==
  \A j \in 1..MaxJobs :
    (j \in DOMAIN jobs) ~> (j \in DOMAIN jobs /\ jobs[j].status \in Terminal)

C32_Witness ==
  \E j \in DOMAIN jobs : \E f \in DOMAIN files :
    /\ pj[j].pc = "done"
    /\ accepted[j] = <<>>
    /\ jobs[j].status \in Terminal
    /\ files[f].jobId = j /\ outcome[f] = "threw"

\* C33: in the single-document API a completed job has its outputUrl set
\* and its data stored, and a download request for a completed job is
\* answered with the data, never with "PDF file not found".
C33_CompletedIsDownloadable ==
  /\ \A id \in DOMAIN pdfJobs :
       pdfJobs[id].status = "completed" =>
         /\ pdfJobs[id].outputUrl # Null
         /\ id \in pdfDataStore
  /\ (resp.route = "downloads" /\ resp.id \in DOMAIN pdfJobs) =>
       /\ pdfJobs[resp.id].status = "completed" => resp.code = 200
       /\ resp.code # 404

C33_Witness ==
  /\ resp.route = "downloads"
  /\ resp.code = 200
  /\ pdfJobs[resp.id].status = "completed"

\* C34: the progress endpoint answers 0 for a pending job, 10 to 95 for a
\* processing one, 100 for a completed one and 0 for a failed one, so it
\* answers 100 exactly when the job is completed.
C34_ProgressFromStatus ==
  /\ \A d \in RandomDraws :
       /\ JobProgress("pending", d) = 0
       /\ JobProgress("processing", d) \in 10..95
       /\ JobProgress("completed", d) = 100
       /\ JobProgress("failed", d) = 0
  /\ (resp.route = "progress" /\ resp.code = 200) =>
       /\ resp.status = pdfJobs[resp.id].status
       /\ resp.status = "pending" => resp.progress = 0
       /\ resp.status = "processing" => resp.progress \in 10..95
       /\ resp.status = "failed" => resp.progress = 0
       /\ resp.progress = 100 <=> resp.status = "completed"

C34_Witness ==
  /\ resp.route = "progress"
  /\ resp.code = 200
  /\ resp.status = "processing"
  /\ resp.progress = 95

\* C35: while a job stays processing (no process request and no timer in
\* between), the progress endpoint never answers less than it answered
\* before.
C35_ProgressNeverDecreases ==
  [][\A id \in DOMAIN pdfJobs : \A d \in RandomDraws :
       ( /\ ProgressRequest(id, d)
         /\ pdfJobs[id].status = "processing"
         /\ id \in DOMAIN lastProgress
         /\ lastProgress[id].calls = processCalls
         /\ lastProgress[id].timers = convTimers[id] ) =>
           lastProgress'[id].progress >= lastProgress[id].progress]_vars

\* C38: a process request with an id that is no number, with options that
\* fail validation or with the id of no job is answered 400 or 404, and
\* leaves every job, every pending completion and the stored data as they
\* were.
C38_RejectedProcessChangesNothing ==
  [][\A param \in IdParams : \A o \in ProcessOptionSets :
       ( /\ ProcessRequestParam(param, o)
         /\ \/ ParseInt(param).nan
            \/ o = InvalidOptions
            \/ ParseInt(param).value \notin DOMAIN pdfJobs ) =>
           /\ resp'.code \in {400, 404}
           /\ UNCHANGED <<pdfJobs, convTimers, pdfDataStore>>]_vars

C38_Witness ==
  /\ resp.route = "process"
  /\ resp.code = 400
  /\ resp.error = "Invalid conversion options"
  /\ resp.id \in DOMAIN pdfJobs
  /\ pdfJobs[resp.id].status = "completed"

\* C36: once cancelConversion has reset the client to idle, conversionState
\* stays idle: the routine that is still running does not set it again (the
\* client starts one conversion, so no new one follows the cancel).
C36_CancelledStaysIdle ==
  cancelledRun => conversionState = "idle"

\* what a status response must show for the loop to be left
PollReportsTerminal ==
  /\ resp.route = "status"
  /\ \/ resp.status \in Terminal
     \/ \A k \in DOMAIN resp.files : resp.files[k].status \in Terminal

\* C37: the polling loop ends.  It is left for the results at the first
\* poll that shows the Job or every File terminal; it is left otherwise
\* only after MaxPolls polls, with conversionState failed; every poll,
\* answered or not, counts once.
C37_PollingTerminates ==
  /\ [](pollCount <= MaxPolls)
  /\ [][(cpc = "poll" /\ resp' = NoResponse /\ PollReportsTerminal) =>
          cpc' = "results"]_vars
  /\ [][(cpc = "poll" /\ cpc' # "poll") =>
          IF completed' THEN cpc' = "results"
          ELSE /\ cpc' = "ended"
               /\ pollCount' = MaxPolls
               /\ conversionState' = "failed"]_vars
  /\ [][(cpc = "poll" /\ pollCount' # pollCount) =>
          /\ pollCount' = pollCount + 1
          /\ (~completed' /\ pollCount' < MaxPolls) => cpc' = "poll"]_vars
  /\ (cpc = "poll") ~> (cpc \in {"results", "ended"})

C37_Witness ==
  /\ cpc = "ended"
  /\ pollCount = MaxPolls
  /\ ~completed
  /\ lastPoll # <<>>
  /\ conversionState = "failed"

\* C39: the list of selected files never holds two files of the same name.
C39_NoTwoSameName ==
  \A a, b \in DOMAIN selectedFiles :
    selectedFiles[a] = selectedFiles[b] => a = b

====
